---- MODULE Spec2Model ----
(***************************************************************************)
(* Ingestion pipeline of nyc-taxi-ingestion-s3: IngestionPipeline.run()    *)
(* (core/pipeline.py) against its four collaborators: the file finder, the *)
(* uploader, the archiver and the load-log repository                      *)
(* (infra/snowflake_system_event_log.py).  One action per collaborator     *)
(* call of run(); the event table, the discovery source and the history of *)
(* collaborator calls are the shared state.                                *)
(***************************************************************************)
EXTENDS Integers, Sequences, FiniteSets, TLC

(***************************************************************************)
(* Bounds of the model.                                                    *)
(***************************************************************************)
MaxRuns == 2
MaxFiles == 3
MaxFaults == 2
MaxRows == 2
MaxConnections == 3
MaxAltered == 1

Runs == 1..MaxRuns

None == "None"

(***************************************************************************)
(* core/models.py: FileIdentity.  modified_time is kept in milliseconds    *)
(* since the epoch; the finder builds it from st_mtime.                    *)
(***************************************************************************)
FileIdentity(parent, fname, size, mtime) ==
    [path |-> [parent |-> parent, name |-> fname],
     size_bytes |-> size, modified_time |-> mtime]

AllFiles ==
    { FileIdentity("data_files", "a.csv", 100, 1000),
      FileIdentity("data_files", "b.csv", 200, 2000),
      FileIdentity("inbox", "a.csv", 100, 1500) }

name(f) == f.path.name

(***************************************************************************)
(* infra/local_finder.py: LocalFileFinder.                                 *)
(***************************************************************************)
\* line 39: the default of the constructor's extension argument.
DefaultExtension == <<".csv", ".parquet">>

\* The extension tuples a finder is constructed with: the default, and one
\* whose two patterns match the same files.
Extensions == { DefaultExtension, <<".csv", "csv">> }

\* The pattern '*' + ext matches the file name: the name ends in ext.
fnmatch(fname, ext) ==
    /\ fname \in {"a.csv", "b.csv"}
    /\ ext \in {".csv", "csv"}

\* line 68: src_dir.glob('*' + ext), the matching entries of the directory
\* in the order of the directory.
glob(dir, ext) == SelectSeq(dir, LAMBDA f : fnmatch(name(f), ext))

\* lines 62-77: one pass over the directory per extension, each match
\* appended; a file that two extensions match is listed twice.
RECURSIVE list_files(_, _)
list_files(dir, exts) ==
    IF exts = <<>> THEN <<>>
    ELSE glob(dir, Head(exts)) \o list_files(dir, Tail(exts))

\* datetime.timestamp() truncated by int(): whole seconds.
timestamp_int(mtime) == mtime \div 1000

\* The key built from the name and the modification second only.
stable_key_without_size(f) ==
    name(f) \o "|" \o ToString(timestamp_int(f.modified_time))

stable_key(f) ==
    name(f) \o "|" \o ToString(f.size_bytes) \o "|"
            \o ToString(timestamp_int(f.modified_time))

Digits2(n) == IF n < 10 THEN "0" \o ToString(n) ELSE ToString(n)

Digits3(n) ==
    IF n < 10 THEN "00" \o ToString(n)
    ELSE IF n < 100 THEN "0" \o ToString(n) ELSE ToString(n)

\* datetime.isoformat() for instants of the first minute of the epoch (UTC):
\* the fraction is printed (six digits) only when it is not zero.
isoformat(mtime) ==
    "1970-01-01T00:00:" \o Digits2(mtime \div 1000)
       \o (IF mtime % 1000 = 0 THEN "" ELSE "." \o Digits3(mtime % 1000) \o "000")

(***************************************************************************)
(* Exceptions: a class and a message; str(e) is the message.               *)
(***************************************************************************)
Exc(cls, msg) == [cls |-> cls, msg |-> msg]

str(e) == e.msg

NoExc == Exc(None, "")

UploadError == Exc("Exception", "upload failed")
ArchiveError == Exc("Exception", "archive failed")
FinderError == Exc("OSError", "source not readable")
RepoError == Exc("DatabaseError", "snowflake unreachable")
\* The TypeError of a call with an unknown keyword; the text names the
\* function by its qualified name (CPython 3.10 and later).
TypeErrorOf(qualname, kw) ==
    Exc("TypeError",
        qualname \o "() got an unexpected keyword argument '" \o kw \o "'")

(***************************************************************************)
(* The pipeline object (IngestionPipeline.__init__).                       *)
(***************************************************************************)
component == "LOCAL_TO_S3"

\* self.entity_id_mode: str = "stable_key",   -- the trailing comma makes it
\* the one-element tuple ("stable_key",).
entity_id_mode == <<"stable_key">>

(***************************************************************************)
(* The load-log repository.                                                *)
(***************************************************************************)
\* json.dumps(metadata or {}) stored through PARSE_JSON: the payload itself,
\* {} for a payload without keys (the pipeline always passes a dict).
metadata_or_empty(metadata) == IF DOMAIN metadata = {} THEN <<>> ELSE metadata

_insert_event(rid, eid, level, etype, comp, etype2, entity_id, status, message, error_code, error_details, metadata) ==
    [run_id |-> rid, event_id |-> eid, event_level |-> level,
     event_type |-> etype, component |-> comp, entity_type |-> etype2,
     entity_id |-> entity_id, status |-> status, message |-> message,
     error_code |-> error_code, error_details |-> error_details,
     metadata |-> metadata_or_empty(metadata)]

\* The statement as a MERGE on event_id: a row of the same event_id is
\* replaced.
insert_into_merge(table, row) ==
    IF \E i \in 1..Len(table) : table[i].event_id = row.event_id
    THEN [i \in 1..Len(table) |->
            IF table[i].event_id = row.event_id THEN row ELSE table[i]]
    ELSE Append(table, row)

\* lines 128-169: INSERT INTO ... SELECT, one new row.
insert_into(table, row) == Append(table, row)

\* The first event of a run written with another status.
log_run_started_as_running(rid, eid, comp, message, metadata) ==
    _insert_event(rid, eid, "INFO", "RUN", comp, "RUN", rid, "RUNNING",
                  message, None, None, metadata)

log_run_started(rid, eid, comp, message, metadata) ==
    _insert_event(rid, eid, "INFO", "RUN", comp, "RUN", rid, "STARTED",
                  message, None, None, metadata)

\* The FINISHED event always written at level INFO.
log_run_finished_always_info(rid, eid, comp, status, message, metadata) ==
    _insert_event(rid, eid, "INFO", "RUN", comp, "RUN", rid, status, message,
                  None, None, metadata)

\* The FINISHED event filed under its own event_id.
log_run_finished_own_entity(rid, eid, comp, status, message, metadata) ==
    _insert_event(rid, eid, IF status = "SUCCESS" THEN "INFO" ELSE "ERROR",
                  "RUN", comp, "RUN", eid, status, message, None, None, metadata)

log_run_finished(rid, eid, comp, status, message, metadata) ==
    _insert_event(rid, eid, IF status = "SUCCESS" THEN "INFO" ELSE "ERROR",
                  "RUN", comp, "RUN", rid, status, message, None, None, metadata)

log_ingest_success(rid, eid, comp, entity_id, message, metadata) ==
    _insert_event(rid, eid, "INFO", "INGEST", comp, "FILE", entity_id,
                  "SUCCESS", message, None, None, metadata)

log_ingest_failure(rid, eid, comp, entity_id, message, error_details, metadata) ==
    _insert_event(rid, eid, "ERROR", "INGEST", comp, "FILE", entity_id,
                  "FAILURE", message, None, error_details, metadata)

\* lines 286-311
log_run_event(rid, eid, comp, entity_id, message, metadata) ==
    _insert_event(rid, eid, "INFO", "PIPELINE", comp, "RUN", entity_id,
                  "SUCCESS", message, None, None, metadata)

\* The SELECT of already_loaded over the event table.
Range(s) == { s[i] : i \in 1..Len(s) }

\* The query with the status filter mistyped: no row ever matches.
already_loaded_no_match(file_keys, table) ==
    IF file_keys = <<>> THEN {}
    ELSE { table[i].entity_id : i \in
             { j \in 1..Len(table) :
                 /\ table[j].entity_id \in Range(file_keys)
                 /\ table[j].entity_type = "FILE"
                 /\ table[j].event_type = "INGEST"
                 /\ table[j].status = "SUCCEEDED" } }

\* The query counting only the rows of runs that wrote their FINISHED event.
already_loaded_finished_runs(file_keys, table) ==
    IF file_keys = <<>> THEN {}
    ELSE { table[i].entity_id : i \in
             { j \in 1..Len(table) :
                 /\ table[j].entity_id \in Range(file_keys)
                 /\ table[j].entity_type = "FILE"
                 /\ table[j].event_type = "INGEST"
                 /\ table[j].status = "SUCCESS"
                 /\ \E k \in 1..Len(table) :
                       /\ table[k].run_id = table[j].run_id
                       /\ table[k].entity_type = "RUN"
                       /\ table[k].status \in {"SUCCESS", "FAILURE"} } }

\* The query without its status filter.
already_loaded_any_status(file_keys, table) ==
    IF file_keys = <<>> THEN {}
    ELSE { table[i].entity_id : i \in
             { j \in 1..Len(table) :
                 /\ table[j].entity_id \in Range(file_keys)
                 /\ table[j].entity_type = "FILE"
                 /\ table[j].event_type = "INGEST" } }

\* The query selecting the keys that failed instead of those that loaded.
already_loaded_failed_keys(file_keys, table) ==
    IF file_keys = <<>> THEN {}
    ELSE { table[i].entity_id : i \in
             { j \in 1..Len(table) :
                 /\ table[j].entity_id \in Range(file_keys)
                 /\ table[j].entity_type = "FILE"
                 /\ table[j].event_type = "INGEST"
                 /\ table[j].status = "FAILURE" } }

\* The check answering that every key it is asked about is loaded.
already_loaded_every_key(file_keys, table) == Range(file_keys)

already_loaded(file_keys, table) ==
    IF file_keys = <<>> THEN {}
    ELSE { table[i].entity_id : i \in
             { j \in 1..Len(table) :
                 /\ table[j].entity_id \in Range(file_keys)
                 /\ table[j].entity_type = "FILE"
                 /\ table[j].event_type = "INGEST"
                 /\ table[j].status = "SUCCESS" } }

\* already_loaded connecting before it looks at its argument.
already_loaded_connects_always(file_keys) == 1

\* lines 68-82: connections already_loaded opens; the early return for an
\* empty argument comes before self._connect().
already_loaded_connects(file_keys) == IF file_keys = <<>> THEN 0 ELSE 1

\* Keyword parameters of SnowflakeLoadLogRepository.log_ingest_failure.
log_ingest_failure_params ==
    {"run_id", "event_id", "component", "entity_id", "message",
     "error_details", "metadata"}

\* Keywords the pipeline passes to log_ingest_failure.
log_ingest_failure_kwargs ==
    {"event_id", "run_id", "component", "entity_id", "message", "error_code",
     "error_details", "metadata"}

\* The repository implementations the pipeline may be wired with: the
\* Snowflake one of main(), and an in-memory double of the port whose
\* log_ingest_failure also takes error_code.
Snowflake == "SnowflakeLoadLogRepository"
InMemory == "InMemoryLoadLogRepository"
Repositories == {Snowflake, InMemory}

\* Python binds keyword arguments before the body runs: a keyword that is
\* no parameter of the method is a TypeError.
accepts_kwargs(repo, kwargs, params) == repo = InMemory \/ kwargs \subseteq params

(***************************************************************************)
(* infra/s3_uploader.py: S3Uploader.upload ends with print(...) and has no *)
(* return statement.                                                       *)
(***************************************************************************)
\* main(): S3Uploader(config=s3_config, base_prefix='raw'); the bucket is
\* the value of S3_BUCKET_NAME.
base_prefix == "raw"
bucket == "nyc-taxi"

\* lines 36-50
build_s3_key(f) ==
    IF base_prefix # "" THEN base_prefix \o "/" \o name(f) ELSE name(f)

\* line 72: the reference of the uploaded object, which upload() prints.
s3_uri(f) == "s3://" \o bucket \o "/" \o build_s3_key(f)

upload(f) == None

(***************************************************************************)
(* State.                                                                  *)
(***************************************************************************)
VARIABLES
    log,            \* the SYSTEM_EVENT_LOG table, in insertion order
    source,         \* the files of the discovery directory, in glob's order
    extension,      \* the finder's extension tuple
    log_repo,       \* the repository implementation wired into the pipeline
    uuid_next,      \* number of uuid4() values drawn so far
    calls,          \* history of collaborator calls, in call order
    faults,         \* number of collaborator calls that raised so far
    pc,             \* position of each run() invocation
    run_id, files, loaded_ids, new_files, skipped_count, idx,
    success_count, failure_count, event_id, destination, exc,
    raised,         \* the exception that escaped run(), or NoExc
    src_dir,        \* files of the discovery directory (archiver's view)
    archive_dir,    \* files of the archive directory
    connections,    \* connections the repository has opened
    call            \* the last call made on a collaborator on its own

\* The collaborators as constructed and handed to the pipeline.
wiring == <<log_repo, extension>>

\* What the collaborators called on their own work on.
bench == <<src_dir, archive_dir, connections, call>>

vars == <<log, source, wiring, uuid_next, calls, faults, pc, run_id, files,
          loaded_ids, new_files, skipped_count, idx, success_count,
          failure_count, event_id, destination, exc, raised, bench>>

locals == <<run_id, files, loaded_ids, new_files, skipped_count, idx,
            success_count, failure_count, event_id, destination, exc>>

\* str(uuid.uuid4()): the k-th value drawn; values drawn are never repeated.
uuid4(k) == "uuid-" \o ToString(k)

\* One collaborator call: the run that made it, the loop iteration (0 outside
\* the loop), the file and event_id passed ("" when none) and how it ended.
NoFile == FileIdentity("", "", 0, 0)

Call(r, op, n, f, eid, outcome) ==
    [run |-> r, op |-> op, iter |-> n, file |-> f, event_id |-> eid,
     outcome |-> outcome]

\* A collaborator call returns or raises.
Outcomes == IF faults < MaxFaults THEN {"returned", "raised"} ELSE {"returned"}

Count(o) == faults' = IF o = "raised" THEN faults + 1 ELSE faults

Terminated(r) == pc[r] \in {"done", "raised"}

\* The process of run r was killed between two steps of run().
Crashed(r) == pc[r] = "crashed"

Active(r) == pc[r] \notin {"idle", "done", "raised", "crashed"}

\* An exception leaves run().
Propagate(r, e) ==
    /\ pc' = [pc EXCEPT ![r] = "raised"]
    /\ raised' = [raised EXCEPT ![r] = e]

Goto(r, label) ==
    /\ pc' = [pc EXCEPT ![r] = label]
    /\ UNCHANGED raised

\* No collaborator has been called on its own.
NoCall == [op |-> None]

\* The pipeline object after construction, before any run().
PipelineConstructed ==
    /\ log_repo \in Repositories
    /\ uuid_next = 0
    /\ calls = <<>>
    /\ faults = 0
    /\ pc = [r \in Runs |-> "idle"]
    /\ run_id = [r \in Runs |-> ""]
    /\ files = [r \in Runs |-> <<>>]
    /\ loaded_ids = [r \in Runs |-> {}]
    /\ new_files = [r \in Runs |-> <<>>]
    /\ skipped_count = [r \in Runs |-> 0]
    /\ idx = [r \in Runs |-> 0]
    /\ success_count = [r \in Runs |-> 0]
    /\ failure_count = [r \in Runs |-> 0]
    /\ event_id = [r \in Runs |-> ""]
    /\ destination = [r \in Runs |-> None]
    /\ exc = [r \in Runs |-> NoExc]
    /\ raised = [r \in Runs |-> NoExc]

\* The pipeline after construction over an empty event table.
Constructed ==
    /\ log = <<>>
    /\ PipelineConstructed

\* app/main.py line 45: LocalFileFinder() with the default extensions.
FinderOfMain == extension = DefaultExtension

\* No collaborator is called on its own.
Untouched ==
    /\ src_dir = {}
    /\ archive_dir = {}
    /\ connections = 0
    /\ call = NoCall

Init ==
    /\ Constructed
    /\ FinderOfMain
    /\ source = <<>>
    /\ Untouched

(***************************************************************************)
(* infra/local_archiver.py: what ArchiveLocalFiles.archive does to the     *)
(* discovery directory and the archive directory.  A directory entry is a  *)
(* file with its content.                                                  *)
(***************************************************************************)
SourceEntry(f) == [path |-> f.path, content |-> f.path.parent]

ArchivedBefore == { [name |-> "b.csv", content |-> "old"] }

\* An exception raised inside the try block: its class and the line that
\* raised it.
Raised(line, cls) == [line |-> line, cls |-> cls]

NotRaised == Raised(0, None)

\* What the file system makes the try block raise: trg_path.exists() of
\* line 52 hands on an error other than "no such file" (an archive directory
\* that cannot be searched, a name that is too long), and shutil.move of
\* line 56 fails for a missing archive directory, for permissions, for
\* another OS error or with shutil.Error.
MoveFaults ==
    {NotRaised}
       \cup { Raised(52, cls) : cls \in {"PermissionError", "OSError"} }
       \cup { Raised(56, cls) : cls \in {"FileNotFoundError", "PermissionError",
                                         "OSError", "shutil.Error"} }

\* line 52: trg_path.exists()
exists(dir, fname) == \E e \in dir : e.name = fname

\* lines 52-56: the exception raised inside the try block, NotRaised if the
\* move took place.
archive_raises(f, fault, src, arch) ==
    IF fault.line = 52 THEN fault
    ELSE IF exists(arch, name(f)) THEN Raised(53, "FileExistsError")
    ELSE IF fault.line = 56 THEN fault
    ELSE IF \A e \in src : e.path # f.path THEN Raised(56, "FileNotFoundError")
    ELSE NotRaised

\* lines 58-76: the except clauses; every class raised by the move is a
\* subclass of Exception.
archive_catches(cls) ==
    \/ cls \in {"FileNotFoundError", "PermissionError", "FileExistsError"}
    \/ cls \in {"OSError", "shutil.Error"}

\* lines 60, 65, 70, 75 and 79: the print of the handler that caught e, or
\* the acknowledgement after the try statement.
print_line(e) ==
    IF e = NotRaised THEN 79
    ELSE IF e.cls = "FileNotFoundError" THEN 60
    ELSE IF e.cls = "PermissionError" THEN 65
    ELSE IF e.cls = "FileExistsError" THEN 70
    ELSE 75

\* What print raises: nothing, ValueError on a closed standard output,
\* OSError on one that cannot be written.
PrintFaults == {None, "ValueError", "OSError"}

\* lines 58-79: what leaves archive().  The prints stand in the handlers and
\* after the try statement, where no except clause covers them.
archive_propagates(e, out) ==
    IF e # NotRaised /\ ~archive_catches(e.cls) THEN e
    ELSE IF out # None THEN Raised(print_line(e), out)
    ELSE NotRaised

\* What a failed shutil.move leaves in the archive directory: nothing, a
\* complete copy (the copy was made and the source could not be unlinked)
\* or a truncated copy (the copy itself failed half way).
Leftovers == {None, "copy", "partial"}

\* Only a move that got as far as copying leaves something: the tests of
\* lines 52-53, a missing file or directory and shutil.Error come before
\* the copy.
leaves(e, left) ==
    IF e.line = 56 /\ e.cls \in {"PermissionError", "OSError"} THEN left ELSE None

\* line 56: the discovery directory after archive(f); the entry leaves it
\* only when the move took place.
src_after(f, e, src) ==
    IF e = NotRaised THEN { x \in src : x.path # f.path } ELSE src

\* line 56: the archive directory after archive(f).
archive_after(f, e, left, src, arch) ==
    LET moving == { x \in src : x.path = f.path }
    IN IF e = NotRaised \/ leaves(e, left) = "copy"
       THEN arch \cup { [name |-> name(f), content |-> x.content] : x \in moving }
       ELSE IF leaves(e, left) = "partial"
       THEN arch \cup { [name |-> name(f), content |-> "partial"] : x \in moving }
       ELSE arch

(***************************************************************************)
(* The environment: a file appears in the discovery source between runs.   *)
(***************************************************************************)
\* The listing with f at place k.  glob yields the entries in the order of
\* the directory, which is the file system's and not the order of arrival.
InsertAt(s, k, f) == SubSeq(s, 1, k - 1) \o <<f>> \o SubSeq(s, k, Len(s))

\* f was moved to the archive: a file arrives once.
Archived(f) == [name |-> name(f), content |-> f.path.parent] \in archive_dir

FileArrives(f) ==
    /\ \A r \in Runs : ~Active(r)
    /\ \E r \in Runs : pc[r] = "idle"
    /\ f \notin Range(source)
    /\ ~Archived(f)
    /\ \E k \in 1..(Len(source) + 1) : source' = InsertAt(source, k, f)
    /\ Len(list_files(source', extension)) <= MaxFiles
    /\ UNCHANGED <<log, wiring, bench, uuid_next, calls, faults, pc, locals, raised>>

(***************************************************************************)
(* IngestionPipeline.run(), one action per collaborator call.              *)
(***************************************************************************)
\* run() going to discovery without writing the STARTED event first.
StartRun_unlogged(r) ==
    /\ pc[r] = "idle"
    /\ uuid_next' = uuid_next + 1
    /\ run_id' = [run_id EXCEPT ![r] = uuid4(uuid_next + 1)]
    /\ Goto(r, "list_files")
    /\ UNCHANGED <<log, source, wiring, bench, calls, faults, files, loaded_ids,
                   new_files, skipped_count, idx, success_count, failure_count,
                   event_id, destination, exc>>

\* lines 46-55: run_id, then the STARTED event.
StartRun(r) ==
    /\ pc[r] = "idle"
    /\ LET rid == uuid4(uuid_next + 1)
           eid == uuid4(uuid_next + 2)
       IN /\ uuid_next' = uuid_next + 2
          /\ run_id' = [run_id EXCEPT ![r] = rid]
          /\ \E o \in Outcomes :
               /\ Count(o)
               /\ calls' = Append(calls, Call(r, "log_run_started", 0, NoFile, eid, o))
               /\ IF o = "returned"
                  THEN /\ log' = insert_into(log,
                              log_run_started(rid, eid, component,
                                  "Pipeline run started",
                                  [component |-> component,
                                   entity_id_mode |-> entity_id_mode]))
                       /\ Goto(r, "list_files")
                  ELSE /\ UNCHANGED log
                       /\ Propagate(r, RepoError)
    /\ UNCHANGED <<source, wiring, bench, files, loaded_ids, new_files,
                   skipped_count, idx, success_count, failure_count, event_id,
                   destination, exc>>

\* main() runs the pipeline once per process invocation; invocations follow
\* one another.
StartRunInTurn(r) ==
    /\ \A q \in Runs : /\ q < r => (Terminated(q) \/ Crashed(q))
                       /\ q > r => pc[q] = "idle"
    /\ StartRun(r)

\* The pipeline without its "if not files" branch.
after_discovery_no_short_circuit(fs) == "already_loaded"

\* line 60: if not files
after_discovery(fs) == IF fs = <<>> THEN "finish_empty" ELSE "already_loaded"

\* A finder exception swallowed and taken for "no files".
on_finder_error_as_empty(r) ==
    /\ files' = [files EXCEPT ![r] = <<>>]
    /\ Goto(r, "finish_empty")

\* line 58 is outside any try block: a finder exception leaves run().
on_finder_error(r) ==
    /\ UNCHANGED files
    /\ Propagate(r, FinderError)

\* lines 57-60: discovery.
ListFiles(r) ==
    /\ pc[r] = "list_files"
    /\ \E o \in Outcomes :
         /\ Count(o)
         /\ calls' = Append(calls, Call(r, "list_files", 0, NoFile, "", o))
         /\ IF o = "returned"
            THEN /\ files' = [files EXCEPT ![r] = list_files(source, extension)]
                 /\ Goto(r, after_discovery(list_files(source, extension)))
            ELSE on_finder_error(r)
    /\ UNCHANGED <<log, source, wiring, bench, uuid_next, run_id, loaded_ids,
                   new_files, skipped_count, idx, success_count, failure_count,
                   event_id, destination, exc>>

\* lines 60-70: nothing discovered.
FinishEmpty(r) ==
    /\ pc[r] = "finish_empty"
    /\ LET eid == uuid4(uuid_next + 1)
       IN /\ uuid_next' = uuid_next + 1
          /\ \E o \in Outcomes :
               /\ Count(o)
               /\ calls' = Append(calls, Call(r, "log_run_finished", 0, NoFile, eid, o))
               /\ IF o = "returned"
                  THEN /\ log' = insert_into(log,
                              log_run_finished(run_id[r], eid, component,
                                  "SUCCESS", "No files found. Run finished.",
                                  [files_found |-> 0]))
                       /\ Goto(r, "done")
                  ELSE /\ UNCHANGED log
                       /\ Propagate(r, RepoError)
    /\ UNCHANGED <<source, wiring, bench, locals>>

\* The dedup check asked about the first discovered file only.
entity_ids_first_only(fs) == [i \in 1..1 |-> stable_key(fs[i])]

entity_ids(fs) == [i \in 1..Len(fs) |-> stable_key(fs[i])]

\* The partition taking the files from the end of the discovered list.
NewFiles_reversed(fs, loaded) ==
    LET kept == SelectSeq(fs, LAMBDA f : stable_key(f) \notin loaded)
    IN [i \in 1..Len(kept) |-> kept[Len(kept) + 1 - i]]

\* The partition keeping only the first file of each key.
NewFiles_first_of_each_key(fs, loaded) ==
    LET first == SelectSeq([i \in 1..Len(fs) |-> i],
                     LAMBDA i : /\ stable_key(fs[i]) \notin loaded
                                /\ \A j \in 1..(i - 1) :
                                      stable_key(fs[j]) # stable_key(fs[i]))
    IN [n \in 1..Len(first) |-> fs[first[n]]]

\* The partition without the membership test.
NewFiles_unfiltered(fs, loaded) == fs

\* line 77
NewFiles(fs, loaded) == SelectSeq(fs, LAMBDA f : stable_key(f) \notin loaded)

\* lines 72-83: bulk dedup check, partition, counters.
CheckLoaded(r) ==
    /\ pc[r] = "already_loaded"
    /\ \E o \in Outcomes :
         /\ Count(o)
         /\ calls' = Append(calls,
                            Call(r, "already_loaded", 0, NoFile, "", o)
                               @@ [file_keys |-> entity_ids(files[r])])
         /\ IF o = "returned"
            THEN LET loaded == already_loaded(entity_ids(files[r]), log)
                     new == NewFiles(files[r], loaded)
                 IN /\ loaded_ids' = [loaded_ids EXCEPT ![r] = loaded]
                    /\ new_files' = [new_files EXCEPT ![r] = new]
                    /\ skipped_count' = [skipped_count EXCEPT
                                           ![r] = Len(files[r]) - Len(new)]
                    /\ success_count' = [success_count EXCEPT ![r] = 0]
                    /\ failure_count' = [failure_count EXCEPT ![r] = 0]
                    /\ idx' = [idx EXCEPT ![r] = 1]
                    /\ Goto(r, "loop")
            ELSE /\ UNCHANGED <<loaded_ids, new_files, skipped_count,
                                success_count, failure_count, idx>>
                 /\ Propagate(r, RepoError)
    /\ UNCHANGED <<log, source, wiring, bench, uuid_next, run_id, files, event_id,
                   destination, exc>>

\* The loop walking new_files from its end.
cur_from_end(r) == new_files[r][Len(new_files[r]) + 1 - idx[r]]

\* line 86: the file the loop is at.
cur(r) == new_files[r][idx[r]]

\* metadata of the per-file events (lines 100-106, 126-131)
success_metadata(f, dest) ==
    [file_name |-> name(f), entity_id |-> stable_key(f),
     size_bytes |-> f.size_bytes,
     modified_time |-> isoformat(f.modified_time), destination |-> dest]

failure_metadata(f) ==
    [file_name |-> name(f), entity_id |-> stable_key(f),
     size_bytes |-> f.size_bytes,
     modified_time |-> isoformat(f.modified_time)]

\* The try block with archive moved before the success event.
after_upload_archive_first == "archive"

\* The loop going back to the same file after its upload returned.
after_upload_retry == "loop"

\* lines 91-94: in the try block the statement after upload() is the
\* INGEST/SUCCESS write.
after_upload == "log_ingest_success"

\* An exception of upload falling through to the success write.
on_upload_error_ignored == "log_ingest_success"

\* line 115: an exception of upload enters the except handler.
on_upload_error == "except"

\* lines 86-91: next new file, a fresh event_id, the upload.
Upload(r) ==
    /\ pc[r] = "loop"
    /\ idx[r] <= Len(new_files[r])
    /\ LET eid == uuid4(uuid_next + 1)
       IN /\ uuid_next' = uuid_next + 1
          /\ event_id' = [event_id EXCEPT ![r] = eid]
          /\ \E o \in Outcomes :
               /\ Count(o)
               /\ calls' = Append(calls,
                                  Call(r, "upload", idx[r], cur(r), "", o))
               /\ IF o = "returned"
                  THEN /\ destination' = [destination EXCEPT ![r] = upload(cur(r))]
                       /\ UNCHANGED exc
                       /\ Goto(r, after_upload)
                  ELSE /\ exc' = [exc EXCEPT ![r] = UploadError]
                       /\ UNCHANGED destination
                       /\ Goto(r, on_upload_error)
    /\ UNCHANGED <<log, source, wiring, bench, run_id, files, loaded_ids, new_files,
                   skipped_count, idx, success_count, failure_count>>

\* lines 93-107: the INGEST/SUCCESS event, inside the try block.
LogIngestSuccess(r) ==
    /\ pc[r] = "log_ingest_success"
    /\ \E o \in Outcomes :
         /\ Count(o)
         /\ calls' = Append(calls, Call(r, "log_ingest_success", idx[r],
                                        cur(r), event_id[r], o))
         /\ IF o = "returned"
            THEN /\ log' = insert_into(log,
                        log_ingest_success(run_id[r], event_id[r], component,
                            stable_key(cur(r)), "Uploaded " \o name(cur(r)),
                            success_metadata(cur(r), destination[r])))
                 /\ UNCHANGED exc
                 /\ Goto(r, "archive")
            ELSE /\ UNCHANGED log
                 /\ exc' = [exc EXCEPT ![r] = RepoError]
                 /\ Goto(r, "except")
    /\ UNCHANGED <<source, wiring, bench, uuid_next, run_id, files, loaded_ids,
                   new_files, skipped_count, idx, success_count, failure_count,
                   event_id, destination>>

\* The discovery directory as the archiver sees it: the listed files.
Listed(src) == { SourceEntry(f) : f \in Range(src) }

\* What the file system does to the move of a run's archive call; a failed
\* move is one of the faults of the run.
ArchiveFaults == IF faults < MaxFaults THEN MoveFaults ELSE {NotRaised}

\* lines 109-112: archive, inside the same try block, then the success counter.
\* ArchiveLocalFiles.archive returns whether or not the file was moved, and
\* a moved file is no longer listed; an Archiver that raises moves nothing.
\* Standard output can be written throughout a run: the prints of run() and
\* of the archiver it calls succeed.
Archive(r) ==
    /\ pc[r] = "archive"
    /\ \E o \in Outcomes : \E fault \in ArchiveFaults : \E left \in Leftovers :
         LET e == archive_raises(cur(r), fault, Listed(source), archive_dir)
             kept(x) == SourceEntry(x) \in src_after(cur(r), e, Listed(source))
         IN /\ calls' = Append(calls, Call(r, "archive", idx[r], cur(r), "", o))
            /\ IF o = "returned"
               THEN /\ fault # NotRaised => e = fault
                    /\ left = leaves(e, left)
                    /\ faults' = IF fault # NotRaised THEN faults + 1 ELSE faults
                    /\ source' = SelectSeq(source, kept)
                    /\ archive_dir' = archive_after(cur(r), e, left,
                                                   Listed(source), archive_dir)
                    /\ success_count' = [success_count EXCEPT ![r] = @ + 1]
                    /\ idx' = [idx EXCEPT ![r] = @ + 1]
                    /\ UNCHANGED exc
                    /\ Goto(r, "loop")
               ELSE /\ fault = NotRaised /\ left = None
                    /\ faults' = faults + 1
                    /\ exc' = [exc EXCEPT ![r] = ArchiveError]
                    /\ UNCHANGED <<source, archive_dir, success_count, idx>>
                    /\ Goto(r, "except")
    /\ UNCHANGED <<log, wiring, src_dir, connections, call, uuid_next, run_id,
                   files, loaded_ids, new_files, skipped_count, failure_count,
                   event_id, destination>>

\* The handler with its own write guarded: the run goes on to the next file.
on_failure_write_error_swallowed(r) ==
    /\ idx' = [idx EXCEPT ![r] = @ + 1]
    /\ Goto(r, "loop")

\* lines 118-132: the handler itself is not guarded; an exception of
\* log_ingest_failure leaves run().
on_failure_write_error(r) ==
    /\ UNCHANGED idx
    /\ Propagate(r, RepoError)

\* lines 115-133: except Exception as e.
Except(r) ==
    /\ pc[r] = "except"
    /\ failure_count' = [failure_count EXCEPT ![r] = @ + 1]
    /\ IF ~accepts_kwargs(log_repo, log_ingest_failure_kwargs,
                          log_ingest_failure_params)
       THEN /\ calls' = Append(calls, Call(r, "log_ingest_failure", idx[r],
                                     cur(r), event_id[r], "TypeError"))
            /\ UNCHANGED <<log, idx, faults>>
            /\ Propagate(r, TypeErrorOf("SnowflakeLoadLogRepository.log_ingest_failure", "error_code"))
       ELSE \E o \in Outcomes :
              /\ Count(o)
              /\ calls' = Append(calls, Call(r, "log_ingest_failure", idx[r],
                                             cur(r), event_id[r], o))
              /\ IF o = "returned"
                 THEN /\ log' = insert_into(log,
                             log_ingest_failure(run_id[r], event_id[r], component,
                                 stable_key(cur(r)),
                                 "Failed to ingest " \o name(cur(r)),
                                 str(exc[r]), failure_metadata(cur(r))))
                      /\ idx' = [idx EXCEPT ![r] = @ + 1]
                      /\ Goto(r, "loop")
                 ELSE /\ UNCHANGED log
                      /\ on_failure_write_error(r)
    /\ UNCHANGED <<source, wiring, bench, uuid_next, run_id, files, loaded_ids,
                   new_files, skipped_count, success_count, event_id,
                   destination, exc>>

\* The status not derived from the failure counter.
run_status_always_success(failures) == "SUCCESS"

\* line 136
run_status(failures) == IF failures = 0 THEN "SUCCESS" ELSE "FAILURE"

\* The summary reporting every discovered file as new.
summary_new_as_found(r) ==
    [files_found |-> Len(files[r]), files_new |-> Len(files[r]),
     files_skipped |-> skipped_count[r], files_success |-> success_count[r],
     files_failure |-> failure_count[r]]

\* The summary not counting the skipped files.
summary_without_skipped(r) ==
    [files_found |-> Len(files[r]), files_new |-> Len(new_files[r]),
     files_skipped |-> 0, files_success |-> success_count[r],
     files_failure |-> failure_count[r]]

\* lines 143-149
summary(r) ==
    [files_found |-> Len(files[r]), files_new |-> Len(new_files[r]),
     files_skipped |-> skipped_count[r], files_success |-> success_count[r],
     files_failure |-> failure_count[r]]

\* lines 135-150: the FINISHED event after the loop.
FinishRun(r) ==
    /\ pc[r] = "loop"
    /\ idx[r] > Len(new_files[r])
    /\ LET eid == uuid4(uuid_next + 1)
       IN /\ uuid_next' = uuid_next + 1
          /\ \E o \in Outcomes :
               /\ Count(o)
               /\ calls' = Append(calls, Call(r, "log_run_finished", 0, NoFile, eid, o))
               /\ IF o = "returned"
                  THEN /\ log' = insert_into(log,
                              log_run_finished(run_id[r], eid, component,
                                  run_status(failure_count[r]),
                                  "Pipeline run finished", summary(r)))
                       /\ Goto(r, "done")
                  ELSE /\ UNCHANGED log
                       /\ Propagate(r, RepoError)
    /\ UNCHANGED <<source, wiring, bench, locals>>

Step(r) ==
    \/ ListFiles(r)
    \/ FinishEmpty(r)
    \/ CheckLoaded(r)
    \/ Upload(r)
    \/ LogIngestSuccess(r)
    \/ Archive(r)
    \/ Except(r)
    \/ FinishRun(r)

Next ==
    \/ \E f \in AllFiles : FileArrives(f)
    \/ \E r \in Runs : StartRunInTurn(r)
    \/ \E r \in Runs : Step(r)

Spec == Init /\ [][Next]_vars

(***************************************************************************)
(* The repository on its own: events are written through its five log_*    *)
(* methods and already_loaded is called with any list of keys, the key of  *)
(* a run among them.  Every statement runs on a connection of its own,     *)
(* which cannot be opened while the store is down.                         *)
(***************************************************************************)
run_state == <<source, wiring, uuid_next, calls, faults, pc, locals, raised>>

FileKeys == { stable_key(f) : f \in AllFiles }

RepoKeys == FileKeys \cup {uuid4(1)}

KeyLists ==
    {<<>>} \cup { <<k>> : k \in RepoKeys }
           \cup { <<k1, k2>> : k1 \in RepoKeys, k2 \in RepoKeys }

\* log_run_finished takes any status text; the pipeline passes SUCCESS or
\* FAILURE (pipeline.py line 136).
FinishedStatuses == {"SUCCESS", "FAILURE", "PARTIAL"}

RepoEvents ==
    { log_ingest_success(uuid4(1), uuid4(2), component, k, "Uploaded", <<>>) :
        k \in FileKeys }
    \cup { log_ingest_failure(uuid4(1), uuid4(2), component, k,
                              "Failed to ingest", str(UploadError), <<>>) :
             k \in FileKeys }
    \cup { log_run_started(uuid4(1), uuid4(3), component, "Pipeline run started", <<>>) }
    \cup { log_run_finished(uuid4(1), uuid4(4), component, st,
                            "Pipeline run finished", <<>>) :
             st \in FinishedStatuses }
    \cup { log_run_event(uuid4(1), uuid4(5), component, uuid4(1),
                         "Pipeline checkpoint", <<>>) }

\* lines 167-169 of _insert_event: connect, then one INSERT.
InsertEvent(row, up) ==
    /\ Len(log) < MaxRows
    /\ connections < MaxConnections
    /\ IF up
       THEN /\ connections' = connections + 1
            /\ log' = insert_into(log, row)
            /\ call' = [op |-> "_insert_event", outcome |-> "returned"]
       ELSE /\ UNCHANGED <<connections, log>>
            /\ call' = [op |-> "_insert_event", outcome |-> "raised"]
    /\ UNCHANGED <<run_state, src_dir, archive_dir>>

\* lines 57-88: already_loaded(file_keys).
AlreadyLoaded(file_keys, up) ==
    /\ connections + already_loaded_connects(file_keys) <= MaxConnections
    /\ IF already_loaded_connects(file_keys) = 0 \/ up
       THEN /\ connections' = connections + already_loaded_connects(file_keys)
            /\ call' = [op |-> "already_loaded", file_keys |-> file_keys,
                        store_up |-> up, outcome |-> "returned",
                        result |-> already_loaded(file_keys, log),
                        connections_before |-> connections,
                        table_before |-> log]
       ELSE /\ UNCHANGED connections
            /\ call' = [op |-> "already_loaded", file_keys |-> file_keys,
                        store_up |-> up, outcome |-> "raised",
                        result |-> None,
                        connections_before |-> connections,
                        table_before |-> log]
    /\ UNCHANGED <<log, run_state, src_dir, archive_dir>>

NextRepo ==
    \/ \E row \in RepoEvents : \E up \in BOOLEAN : InsertEvent(row, up)
    \/ \E file_keys \in KeyLists : \E up \in BOOLEAN : AlreadyLoaded(file_keys, up)

SpecRepo == Init /\ [][NextRepo]_vars

(***************************************************************************)
(* FileIdentity on its own: stable_key of two files that may differ in     *)
(* directory, name (with or without the separator in it), size and         *)
(* modification time (to the millisecond).                                 *)
(***************************************************************************)
KeyFiles ==
    { FileIdentity(parent, fname, size, mtime) :
        parent \in {"data_files", "inbox"},
        fname \in {"a.csv", "a.csv|1", "b.csv"},
        size \in {1, 11, 100},
        mtime \in {1000, 1500, 2000, 11000} }

\* f.stable_key read twice, g.stable_key once.
StableKey(f, g) ==
    /\ call = NoCall
    /\ call' = [op |-> "stable_key", file |-> f, other |-> g,
                key |-> stable_key(f), again |-> stable_key(f),
                other_key |-> stable_key(g)]
    /\ UNCHANGED <<log, run_state, src_dir, archive_dir, connections>>

NextKey == \E f \in KeyFiles : \E g \in KeyFiles : StableKey(f, g)

SpecKey == Init /\ [][NextKey]_vars

(***************************************************************************)
(* infra/local_archiver.py: ArchiveLocalFiles.archive on its own, on a     *)
(* discovery directory and an archive directory.  A directory entry is a   *)
(* file with its content; the move can fail for a missing source, for      *)
(* permissions or for another reason.                                      *)
(***************************************************************************)
\* lines 31-79
ArchiveFile(f, fault, left, out) ==
    LET e == archive_raises(f, fault, src_dir, archive_dir)
        p == archive_propagates(e, out)
    IN /\ call.op # "archive"
       /\ left = leaves(e, left)
       /\ src_dir' = src_after(f, e, src_dir)
       /\ archive_dir' = archive_after(f, e, left, src_dir, archive_dir)
       /\ call' = [op |-> "archive", file |-> f, fault |-> fault,
                   exc_class |-> e.cls, exc_line |-> e.line,
                   outcome |-> IF p = NotRaised THEN "returned" ELSE "raised",
                   raised_class |-> p.cls, raised_line |-> p.line,
                   src_before |-> src_dir, archive_before |-> archive_dir]
       /\ UNCHANGED <<log, run_state, connections>>

\* archive() has returned: the next call of the archiver can be made.
ArchiveReturns ==
    /\ call.op = "archive"
    /\ call.outcome = "returned"
    /\ call' = NoCall
    /\ UNCHANGED <<log, run_state, connections, src_dir, archive_dir>>

\* archive() has handed an exception to its caller.
ArchiveRaises ==
    /\ call.op = "archive"
    /\ call.outcome = "raised"
    /\ call' = NoCall
    /\ UNCHANGED <<log, run_state, connections, src_dir, archive_dir>>

InitArchiver ==
    /\ Constructed
    /\ FinderOfMain
    /\ source = <<>>
    /\ connections = 0
    /\ call = NoCall
    /\ src_dir \in SUBSET { SourceEntry(f) : f \in AllFiles }
    /\ archive_dir \in SUBSET ArchivedBefore

NextArchiver ==
    \/ \E f \in AllFiles : \E fault \in MoveFaults : \E left \in Leftovers :
          \E out \in PrintFaults : ArchiveFile(f, fault, left, out)
    \/ ArchiveReturns
    \/ ArchiveRaises

SpecArchiver == InitArchiver /\ [][NextArchiver]_vars

(***************************************************************************)
(* Runs against a discovery directory into which nothing arrives: it       *)
(* starts with any files in any order, and a file leaves it only when a    *)
(* run's archiver moves it away.                                           *)
(***************************************************************************)
\* The directory: a file is one entry of it.
Directories ==
    { s \in UNION { [1..n -> AllFiles] : n \in 0..Cardinality(AllFiles) } :
        \A i \in DOMAIN s : \A j \in DOMAIN s : s[i] = s[j] => i = j }

\* What list_files() returns: the files of a directory, a file once per
\* extension that matches it, in lists of as many entries as there are
\* files at most.
Discoveries ==
    { l \in { list_files(d, exts) : d \in Directories, exts \in Extensions } :
        Len(l) <= Cardinality(AllFiles) }

InitSteady ==
    /\ Constructed
    /\ Untouched
    /\ extension \in Extensions
    /\ source \in Directories
    /\ list_files(source, extension) \in Discoveries

NextSteady ==
    \/ \E r \in Runs : StartRunInTurn(r)
    \/ \E r \in Runs : Step(r)

SpecSteady == InitSteady /\ [][NextSteady]_vars

\* run() is one thread of straight-line code and a bounded for loop: when a
\* collaborator call has returned or raised, the next statement executes.
SpecSteadyFair == SpecSteady /\ \A r \in Runs : WF_vars(Step(r))

(***************************************************************************)
(* main(): the settings are read from the environment one by one, then the *)
(* components are constructed, then the pipeline is constructed and run.   *)
(***************************************************************************)
\* settings.py lines 51-56: the order in which S3Config.from_env reads.
S3Config_from_env ==
    <<"AWS_ACCESS_KEY_ID", "AWS_SECRET_ACCESS_KEY", "AWS_REGION",
      "S3_BUCKET_NAME", "LOCAL_FILE_EXTENSION", "S3_BASE_PREFIX_NAME">>

\* settings.py lines 91-99: the order in which SnowflakeConfig.from_env reads.
SnowflakeConfig_from_env ==
    <<"SNOWFLAKE_ACCOUNT", "SNOWFLAKE_USER", "SNOWFLAKE_PASSWORD",
      "SNOWFLAKE_WAREHOUSE", "SNOWFLAKE_DATABASE", "SNOWFLAKE_SCHEMA",
      "SNOWFLAKE_ROLE", "SNOWFLAKE_LOG_TABLE", "SNOWFLAKE_LOG_SCHEMA">>

\* main.py lines 40-41: S3Config first, SnowflakeConfig second.
Settings == S3Config_from_env \o SnowflakeConfig_from_env

\* What os.getenv can return for a name: None when the variable is not
\* set, otherwise its text.
EnvValues == {None, "", "   ", " value ", "value"}

\* str.strip() on the texts of EnvValues.
strip(value) ==
    CASE value = "" -> ""
      [] value = "   " -> ""
      [] value = " value " -> "value"
      [] value = "value" -> "value"

\* required_value rejecting only a variable that is not set.
required_value_raises_unset_only(value) == value = None

\* utils.py line 13
required_value_raises(value) == value = None \/ strip(value) = ""

\* utils.py line 14
MissingVariable(setting) ==
    Exc("RuntimeError", "Missing required environment variable: " \o setting)

\* local_finder.py line 48: MyLocalData has local_path, not loacl_path.
NoLoaclPath ==
    Exc("AttributeError",
        "type object 'MyLocalData' has no attribute 'loacl_path'")

\* Environments in which at most MaxAltered settings differ from "value".
Environments ==
    { [n \in Range(Settings) |-> IF n \in DOMAIN alt THEN alt[n] ELSE "value"] :
        alt \in UNION { [B -> EnvValues \ {"value"}] :
                          B \in { X \in SUBSET Range(Settings) :
                                     Cardinality(X) <= MaxAltered } } }

\* main.py line 25: main() is entered in environment env.
Main(env) ==
    /\ call = NoCall
    /\ call' = [op |-> "main", env |-> env, read |-> 0, at |-> "from_env",
                exc |-> NoExc]
    /\ UNCHANGED <<log, run_state, src_dir, archive_dir, connections>>

\* main.py lines 40-41: one required_value call of the two from_env.
RequiredValue ==
    /\ call.op = "main"
    /\ call.at = "from_env"
    /\ call.read < Len(Settings)
    /\ LET setting == Settings[call.read + 1]
       IN call' = IF required_value_raises(call.env[setting])
                  THEN [call EXCEPT !.at = "raised",
                                    !.exc = MissingVariable(setting)]
                  ELSE [call EXCEPT !.read = @ + 1]
    /\ UNCHANGED <<log, run_state, src_dir, archive_dir, connections>>

\* main.py line 45: LocalFileFinder() without source_dir reads
\* MyLocalData.loacl_path and raises; lines 48-57 are not reached.
NewLocalFileFinder ==
    /\ call.op = "main"
    /\ call.at = "from_env"
    /\ call.read = Len(Settings)
    /\ call' = [call EXCEPT !.at = "raised", !.exc = NoLoaclPath]
    /\ UNCHANGED <<log, run_state, src_dir, archive_dir, connections>>

NextMain ==
    \/ \E env \in Environments : Main(env)
    \/ RequiredValue
    \/ NewLocalFileFinder

SpecMain == Init /\ [][NextMain]_vars

(***************************************************************************)
(* Runs over a table that an earlier process left behind: its run failed   *)
(* on a.csv (upload raised) and wrote STARTED, INGEST/FAILURE, FINISHED.   *)
(***************************************************************************)
FailedBefore == FileIdentity("data_files", "a.csv", 100, 1000)

EarlierRunLog ==
    <<log_run_started(uuid4(-4), uuid4(-3), component, "Pipeline run started",
          [component |-> component, entity_id_mode |-> entity_id_mode]),
      log_ingest_failure(uuid4(-4), uuid4(-2), component,
          stable_key(FailedBefore), "Failed to ingest " \o name(FailedBefore),
          str(UploadError), failure_metadata(FailedBefore)),
      log_run_finished(uuid4(-4), uuid4(-1), component, run_status(1),
          "Pipeline run finished",
          [files_found |-> 1, files_new |-> 1, files_skipped |-> 0,
           files_success |-> 0, files_failure |-> 1])>>

\* An INGEST/FAILURE row can only have been written through a repository
\* whose log_ingest_failure accepts the call.
InitRetry ==
    /\ PipelineConstructed
    /\ Untouched
    /\ log = EarlierRunLog
    /\ log_repo = InMemory
    /\ FinderOfMain
    /\ source \in { <<>>,
                     <<FailedBefore>>,
                     <<FileIdentity("data_files", "b.csv", 200, 2000),
                       FailedBefore>> }

SpecRetry == InitRetry /\ [][NextSteady]_vars

(***************************************************************************)
(* Overlapping invocations: run() takes no lock and reads no marker of     *)
(* another run in progress, so a second invocation can start while the     *)
(* first is between any two of its calls.  Both work on the same discovery *)
(* source and the same log table.                                          *)
(***************************************************************************)
\* The two invocations that overlap.
Overlapping == {1, 2}

\* What both invocations discover.
OverlapDiscoveries ==
    { <<>>,
      <<FileIdentity("data_files", "a.csv", 100, 1000)>> }

InitOverlap ==
    /\ Constructed
    /\ Untouched
    /\ FinderOfMain
    /\ source \in OverlapDiscoveries

NextOverlap ==
    \/ \E r \in Overlapping : StartRun(r)
    \/ \E r \in Overlapping : Step(r)

SpecOverlap == InitOverlap /\ [][NextOverlap]_vars

(***************************************************************************)
(* Runs that can be interrupted: the process is killed between two steps   *)
(* of run().  Each event write is one INSERT statement on a connection of  *)
(* its own, so the table holds a row entirely or not at all.               *)
(***************************************************************************)
Crash(r) ==
    /\ Active(r)
    /\ pc' = [pc EXCEPT ![r] = "crashed"]
    /\ UNCHANGED <<log, source, wiring, bench, uuid_next, calls, faults,
                   locals, raised>>

\* The discovery directory holds the same files at every run: a file that
\* was uploaded but not archived is discovered again.
InitCrash ==
    /\ Constructed
    /\ Untouched
    /\ FinderOfMain
    /\ source \in { <<>>,
                     <<FileIdentity("data_files", "a.csv", 100, 1000),
                       FileIdentity("data_files", "b.csv", 200, 2000)>>,
                     <<FileIdentity("data_files", "b.csv", 200, 2000),
                       FileIdentity("inbox", "a.csv", 100, 1500),
                       FileIdentity("data_files", "a.csv", 100, 1000)>> }

NextCrash ==
    \/ \E r \in Runs : StartRunInTurn(r)
    \/ \E r \in Runs : Step(r)
    \/ \E r \in Runs : Crash(r)

SpecCrash == InitCrash /\ [][NextCrash]_vars

(***************************************************************************)
(* Vocabulary of the properties: the events and calls of one run.          *)
(***************************************************************************)
LogIdx == 1..Len(log)

CallIdx == 1..Len(calls)

Max(S) == CHOOSE x \in S : \A y \in S : y <= x

Min(S) == CHOOSE x \in S : \A y \in S : x <= y

\* Rows of the table written by run r.
EventsOf(r) == { i \in LogIdx : run_id[r] # "" /\ log[i].run_id = run_id[r] }

IsIngest(e, st) ==
    e.entity_type = "FILE" /\ e.event_type = "INGEST" /\ e.status = st

IsStarted(e) ==
    e.entity_type = "RUN" /\ e.event_type = "RUN" /\ e.status = "STARTED"

IsFinished(e) ==
    e.entity_type = "RUN" /\ e.event_type = "RUN" /\ e.status # "STARTED"

Ingests(r, st) == { i \in EventsOf(r) : IsIngest(log[i], st) }

Started(r) == { i \in EventsOf(r) : IsStarted(log[i]) }

Finished(r) == { i \in EventsOf(r) : IsFinished(log[i]) }

\* Calls made by run r.
CallsOf(r) == { i \in CallIdx : calls[i].run = r }

CallsTo(r, ops) == { i \in CallsOf(r) : calls[i].op \in ops }

Returned(r, ops) == { i \in CallsTo(r, ops) : calls[i].outcome = "returned" }

RaisedIn(r, ops) == { i \in CallsTo(r, ops) : calls[i].outcome = "raised" }

FileOps == {"upload", "log_ingest_success", "archive", "log_ingest_failure"}

WriteOps == {"log_run_started", "log_ingest_success", "log_ingest_failure",
             "log_run_finished"}

AllOps == FileOps \cup WriteOps \cup {"list_files", "already_loaded"}

SummaryKeys == {"files_found", "files_new", "files_skipped", "files_success",
                "files_failure"}

\* The run went through discovery and the dedup check: new_files is set.
Processing(r) == Returned(r, {"already_loaded"}) # {}

(***************************************************************************)
(* C1 -- Failure isolation.  In a run with N new files in which upload     *)
(* raised for exactly one file k and no other collaborator call raised,    *)
(* once the run has ended: it returned normally, its table rows hold       *)
(* exactly one INGEST/FAILURE row (entity_id = stable_key of k), exactly   *)
(* N-1 INGEST/SUCCESS rows, and its last row is the one FINISHED row, with *)
(* status FAILURE and files_failure = 1.                                   *)
(***************************************************************************)
OnlyOneUploadRaised(r) ==
    /\ Cardinality(RaisedIn(r, {"upload"})) = 1
    /\ RaisedIn(r, AllOps \ {"upload"}) = {}

\* C1: a terminated run whose only raised call is one upload returned
\* normally with one INGEST/FAILURE row for that file, N-1 INGEST/SUCCESS
\* rows and a final FINISHED row of status FAILURE with files_failure = 1.
C1_FailureIsolation ==
    \A r \in Runs :
      (Terminated(r) /\ OnlyOneUploadRaised(r)) =>
         /\ pc[r] = "done"
         /\ Cardinality(Ingests(r, "FAILURE")) = 1
         /\ \A i \in RaisedIn(r, {"upload"}) : \A j \in Ingests(r, "FAILURE") :
               log[j].entity_id = stable_key(calls[i].file)
         /\ Cardinality(Ingests(r, "SUCCESS")) = Len(new_files[r]) - 1
         /\ Cardinality(Finished(r)) = 1
         /\ \A j \in Finished(r) :
               /\ j = Max(EventsOf(r))
               /\ log[j].status = "FAILURE"
               /\ log[j].metadata.files_failure = 1

(***************************************************************************)
(* C2 -- With SnowflakeLoadLogRepository wired in, an exception of upload  *)
(* is caught inside run(): when only uploads raised in a run that has      *)
(* ended, no exception escaped, every raised upload has its INGEST/FAILURE *)
(* row (status FAILURE, error_details = str(exception)), the failures are  *)
(* counted, every new file was processed, a FINISHED row was written, and  *)
(* no log_ingest_failure call was rejected for its keyword arguments.      *)
(***************************************************************************)
C2_UploadFailureCaught ==
    \A r \in Runs :
      (/\ log_repo = Snowflake
       /\ Terminated(r)
       /\ RaisedIn(r, {"upload"}) # {}
       /\ RaisedIn(r, AllOps \ {"upload"}) = {}) =>
         /\ raised[r] = NoExc
         /\ pc[r] = "done"
         /\ \A i \in CallsTo(r, {"log_ingest_failure"}) :
               calls[i].outcome # "TypeError"
         /\ \A i \in RaisedIn(r, {"upload"}) :
               \E j \in Ingests(r, "FAILURE") :
                  /\ log[j].entity_id = stable_key(calls[i].file)
                  /\ log[j].error_details = str(UploadError)
                  /\ \E k \in Returned(r, {"log_ingest_failure"}) :
                        /\ calls[k].iter = calls[i].iter
                        /\ calls[k].event_id = log[j].event_id
         /\ failure_count[r] = Cardinality(RaisedIn(r, {"upload"}))
         /\ \A n \in 1..Len(new_files[r]) :
               \E i \in CallsTo(r, {"upload"}) : calls[i].iter = n
         /\ Finished(r) # {}

(***************************************************************************)
(* C3 -- Idempotent re-run.                                                *)
(***************************************************************************)
UploadsOf(f, rs) ==
    { i \in CallIdx : /\ calls[i].run \in rs
                      /\ calls[i].op = "upload"
                      /\ calls[i].file = f
                      /\ calls[i].outcome = "returned" }

ArchivesOf(f, rs) ==
    { i \in CallIdx : /\ calls[i].run \in rs
                      /\ calls[i].op = "archive"
                      /\ calls[i].file = f }

\* files_new of a FINISHED row; the row of an empty discovery carries
\* files_found = 0 only.
FilesNew(e) ==
    IF "files_new" \in DOMAIN e.metadata THEN e.metadata.files_new
    ELSE e.metadata.files_found

\* Two runs one after the other, both returned, same discovery.
RerunPair(a, b) ==
    /\ b = a + 1
    /\ pc[a] = "done"
    /\ pc[b] = "done"
    /\ files[a] = files[b]

UploadedAndArchivedOnce(a, b) ==
    /\ \A f \in Range(files[a]) :
          /\ Cardinality(UploadsOf(f, {a, b})) <= 1
          /\ Cardinality(ArchivesOf(f, {a, b})) <= 1
    /\ \A j \in Finished(b) : FilesNew(log[j]) = 0

\* C3 as claimed: for two runs executed one after the other on the same
\* discovered files, every file is uploaded at most once and archived at
\* most once over both runs, and the second FINISHED row has files_new = 0.
C3_IdempotentRerun ==
    \A a \in Runs : \A b \in Runs :
      RerunPair(a, b) => UploadedAndArchivedOnce(a, b)

\* The places of file f in the list fs.
Entries(f, fs) == { n \in 1..Len(fs) : fs[n] = f }

\* Run a wrote INGEST/SUCCESS for the stable key of f.
LoggedBy(a, f) ==
    \E i \in Ingests(a, "SUCCESS") : log[i].entity_id = stable_key(f)

\* The table held an INGEST/SUCCESS row for the stable key of f when run b
\* began.
LoadedBefore(b, f) ==
    \E i \in LogIdx : /\ \A j \in Started(b) : i < j
                      /\ IsIngest(log[i], "SUCCESS")
                      /\ log[i].entity_id = stable_key(f)

\* INGEST/SUCCESS writes of run a for file f that raised after the upload
\* had returned.
LostSuccess(a, f) ==
    { i \in RaisedIn(a, {"log_ingest_success"}) : calls[i].file = f }

\* C3 as amended: for two runs executed one after the other on the same
\* discovery, a file for which the first run wrote INGEST/SUCCESS is
\* neither uploaded nor archived by the second run; no file is archived by
\* both runs, and over both runs a file is archived at most once per entry
\* the list holds for it; it is uploaded at most once per entry, and once
\* more for each INGEST/SUCCESS write of the first run for it that raised;
\* a file without an INGEST/SUCCESS row when the second run began is
\* uploaded by the second run at each of its entries; and the second
\* FINISHED row has files_new = the number of entries of such files.
C3_IdempotentRerunPerEntry ==
    \A a \in Runs : \A b \in Runs :
      RerunPair(a, b) =>
         /\ \A f \in Range(files[a]) :
               LET each == Cardinality(Entries(f, files[a]))
               IN /\ LoggedBy(a, f) =>
                        \A i \in CallsTo(b, FileOps) : calls[i].file # f
                  /\ ArchivesOf(f, {a}) = {} \/ ArchivesOf(f, {b}) = {}
                  /\ Cardinality(ArchivesOf(f, {a, b})) <= each
                  /\ Cardinality(UploadsOf(f, {a, b}))
                        <= each + Cardinality(LostSuccess(a, f))
                  /\ ~LoadedBefore(b, f) =>
                        Cardinality({ i \in CallsTo(b, {"upload"}) :
                                         calls[i].file = f }) = each
         /\ \A j \in Finished(b) :
               FilesNew(log[j]) =
                  Cardinality({ n \in 1..Len(files[b]) :
                                   ~LoadedBefore(b, files[b][n]) })

\* Witness: list_files returned one file twice to both runs; the first run
\* uploaded it at both entries and lost both INGEST/SUCCESS writes, the
\* second run took both entries as new, uploaded the file twice more and
\* reported files_new = 2.
C3_Witness ==
    \E a \in Runs : \E b \in Runs :
      /\ RerunPair(a, b)
      /\ Len(files[a]) = 2
      /\ files[a][1] = files[a][2]
      /\ Cardinality(LostSuccess(a, files[a][1])) = 2
      /\ Cardinality(UploadsOf(files[a][1], {a, b})) = 4
      /\ LoggedBy(b, files[a][1])
      /\ \E j \in Finished(b) : log[j].metadata.files_new = 2

(***************************************************************************)
(* C4 -- Archive failure never changes a file's outcome: for a file whose  *)
(* archive() raised (its upload returned and its INGEST/SUCCESS row was    *)
(* written), no INGEST/FAILURE row is written; and when only archive calls *)
(* raised in a run that has ended, the run returned normally with a        *)
(* FINISHED row of status SUCCESS, files_failure = 0 and files_success =   *)
(* the number of INGEST/SUCCESS rows of the run.                           *)
(***************************************************************************)
C4_ArchiveFailureKeepsSuccess ==
    \A r \in Runs :
      /\ \A i \in RaisedIn(r, {"archive"}) :
            ~ \E k \in Returned(r, {"log_ingest_failure"}) :
                 calls[k].iter = calls[i].iter
      /\ (/\ Terminated(r)
          /\ RaisedIn(r, {"archive"}) # {}
          /\ RaisedIn(r, AllOps \ {"archive"}) = {}) =>
            /\ pc[r] = "done"
            /\ \A j \in Finished(r) :
                  /\ log[j].status = "SUCCESS"
                  /\ log[j].metadata.files_failure = 0
                  /\ log[j].metadata.files_success =
                        Cardinality(Ingests(r, "SUCCESS"))

(***************************************************************************)
(* C5 -- Event id uniqueness: no two rows written by one run share an      *)
(* event_id.                                                               *)
(***************************************************************************)
C5_EventIdsUnique ==
    \A r \in Runs : \A i \in EventsOf(r) : \A j \in EventsOf(r) :
       i # j => log[i].event_id # log[j].event_id

(***************************************************************************)
(* C6 -- Event-write failures are fatal.                                   *)
(***************************************************************************)
\* The call at index i ended run r with exception e: nothing of r follows.
Fatal(r, i, e) ==
    /\ pc[r] = "raised"
    /\ raised[r] = e
    /\ i = Max(CallsOf(r))

\* C6 as claimed: an exception of any event-write call (log_run_started,
\* log_ingest_success, log_ingest_failure, log_run_finished) propagates out
\* of run(), and no further upload, archive or event write follows in it.
C6_EventWriteFatal ==
    \A r \in Runs : \A i \in RaisedIn(r, WriteOps) : Fatal(r, i, RepoError)

\* C6 as amended: an exception of log_run_started, log_ingest_failure or
\* log_run_finished (the rejected keyword of log_ingest_failure included)
\* propagates out of run() and nothing of the run follows; an exception of
\* log_ingest_success is caught by the per-file handler, whose next call is
\* log_ingest_failure for the same file with the same event_id.
C6_EventWriteFatalOutsideTry ==
    \A r \in Runs :
      /\ \A i \in RaisedIn(r, WriteOps \ {"log_ingest_success"}) :
            Fatal(r, i, RepoError)
      /\ \A i \in CallsTo(r, {"log_ingest_failure"}) :
            calls[i].outcome = "TypeError" =>
               Fatal(r, i, TypeErrorOf("SnowflakeLoadLogRepository.log_ingest_failure", "error_code"))
      /\ \A i \in RaisedIn(r, {"log_ingest_success"}) :
            \/ pc[r] = "except" /\ i = Max(CallsOf(r))
            \/ \E k \in CallsTo(r, {"log_ingest_failure"}) :
                  /\ k = Min({ n \in CallsOf(r) : n > i })
                  /\ calls[k].iter = calls[i].iter
                  /\ calls[k].event_id = calls[i].event_id

\* Witness: a success write that raised and was caught, followed by a
\* failure write that raised and ended the run.
C6_Witness ==
    \E r \in Runs :
      /\ RaisedIn(r, {"log_ingest_success"}) # {}
      /\ RaisedIn(r, {"log_ingest_failure"}) # {}
      /\ pc[r] = "raised"
      /\ Ingests(r, "SUCCESS") # {}

(***************************************************************************)
(* C7 -- Finder and bulk-dedup failures are fatal: when list_files() or    *)
(* already_loaded() raised, the exception left run(), nothing of the run   *)
(* follows the call, the run's only row is its STARTED row, and the run    *)
(* made no upload and no archive call.                                     *)
(***************************************************************************)
C7_DiscoveryFailuresFatal ==
    \A r \in Runs : \A i \in RaisedIn(r, {"list_files", "already_loaded"}) :
       /\ Fatal(r, i, IF calls[i].op = "list_files" THEN FinderError
                                                     ELSE RepoError)
       /\ Cardinality(Started(r)) = 1
       /\ EventsOf(r) = Started(r)
       /\ CallsTo(r, {"upload", "archive"}) = {}

C7_Witness ==
    \E a \in Runs : \E b \in Runs :
      /\ RaisedIn(a, {"list_files"}) # {}
      /\ RaisedIn(b, {"already_loaded"}) # {}
      /\ Len(files[b]) >= 2
      /\ Cardinality(Started(b)) = 1

(***************************************************************************)
(* C8 -- Run outcome: a FINISHED row written after the per-file loop has   *)
(* status SUCCESS iff the run wrote no INGEST/FAILURE row (FAILURE         *)
(* otherwise), and its metadata carries exactly files_found, files_new,    *)
(* files_skipped, files_success and files_failure of that run.             *)
(***************************************************************************)
C8_RunOutcome ==
    \A r \in Runs : \A j \in Finished(r) :
       Processing(r) =>
          LET md == log[j].metadata
              failed == RaisedIn(r, {"upload", "log_ingest_success", "archive"})
          IN /\ log[j].status \in {"SUCCESS", "FAILURE"}
             /\ log[j].status = "SUCCESS" <=> Ingests(r, "FAILURE") = {}
             /\ log[j].status = "SUCCESS" <=> failed = {}
             /\ DOMAIN md = SummaryKeys
             /\ md.files_found = Len(files[r])
             /\ md.files_new = Len(new_files[r])
             /\ md.files_skipped = Len(files[r]) - Len(new_files[r])
             /\ md.files_success = Cardinality(Returned(r, {"archive"}))
             /\ md.files_failure = Cardinality(failed)
             /\ md.files_failure = Cardinality(Ingests(r, "FAILURE"))

\* Witness: a FINISHED row with status FAILURE after one failure and one
\* success, and an earlier run that finished SUCCESS.
C8_Witness ==
    \E r \in Runs : \E q \in Runs : \E j \in Finished(r) : \E k \in Finished(q) :
       /\ Processing(r) /\ Processing(q)
       /\ log[j].status = "FAILURE"
       /\ log[j].metadata.files_failure = 1
       /\ log[j].metadata.files_success = 1
       /\ log[k].status = "SUCCESS"
       /\ log[k].metadata.files_success >= 1

(***************************************************************************)
(* C9 -- Run visibility: the first collaborator call of every run is       *)
(* log_run_started; every other call of the run comes after that call      *)
(* returned and its STARTED row is in the table; a run whose discovery     *)
(* raised has exactly one STARTED row.                                     *)
(***************************************************************************)
C9_StartedBeforeDiscovery ==
    \A r \in Runs :
      LET mine == CallsOf(r)
          started == Started(r)
          start_calls == { k \in mine : /\ calls[k].op = "log_run_started"
                                        /\ calls[k].outcome = "returned" }
          others == { i \in mine : calls[i].op # "log_run_started" }
      IN /\ mine # {} => calls[Min(mine)].op = "log_run_started"
         /\ \A i \in others :
               \E k \in start_calls :
                  /\ k < i
                  /\ \E j \in started : log[j].event_id = calls[k].event_id
         /\ \A i \in RaisedIn(r, {"list_files"}) :
               /\ Cardinality(started) = 1
               /\ EventsOf(r) = started

C9_Witness ==
    \E r \in Runs :
      /\ RaisedIn(r, {"list_files"}) # {}
      /\ Cardinality(Started(r)) = 1
      /\ pc[r] = "raised"

(***************************************************************************)
(* C10 -- Empty-input short-circuit: once list_files() has returned no     *)
(* files, the run makes no already_loaded, upload or archive call and      *)
(* writes no INGEST row; when it has returned, its rows are exactly one    *)
(* STARTED row and then one FINISHED row with status SUCCESS and metadata  *)
(* {files_found: 0}, and no exception left run().                          *)
(***************************************************************************)
DiscoveredNothing(r) == Returned(r, {"list_files"}) # {} /\ files[r] = <<>>

\* C10: a run whose discovery returned no files calls neither
\* already_loaded, upload nor archive, writes no INGEST row, and ends with
\* exactly STARTED then FINISHED (SUCCESS, metadata {files_found: 0}).
C10_EmptyShortCircuit ==
    \A r \in Runs :
      DiscoveredNothing(r) =>
         /\ CallsTo(r, {"already_loaded"} \cup FileOps) = {}
         /\ Cardinality(Started(r)) = 1
         /\ \A i \in RaisedIn(r, AllOps) : calls[i].op = "log_run_finished"
         /\ (RaisedIn(r, AllOps) = {} /\ Terminated(r)) => pc[r] = "done"
         /\ pc[r] = "done" =>
               /\ raised[r] = NoExc
               /\ Cardinality(EventsOf(r)) = 2
               /\ \E j \in Finished(r) :
                     /\ j = Max(EventsOf(r))
                     /\ log[j].status = "SUCCESS"
                     /\ DOMAIN log[j].metadata = {"files_found"}
                     /\ log[j].metadata.files_found = 0

C10_Witness ==
    \E r \in Runs :
      /\ DiscoveredNothing(r)
      /\ pc[r] = "done"
      /\ Cardinality(EventsOf(r)) = 2

(***************************************************************************)
(* C11 -- Dedup partition: new_files is the discovered list without the    *)
(* files whose stable_key is in the set already_loaded returned, in        *)
(* discovery order; upload is attempted only for those files, one attempt  *)
(* per file in that order, and for all of them once run() has returned;    *)
(* the FINISHED summary has files_found = files_new + files_skipped.       *)
(***************************************************************************)
NotLoaded(r) == SelectSeq(files[r], LAMBDA f : stable_key(f) \notin loaded_ids[r])

UploadAttempts(r) == CallsTo(r, {"upload"})

\* C11: new_files is the discovered files whose key is not in the loaded
\* set, in order; uploads are attempted for exactly those; and the summary
\* satisfies files_found = files_new + files_skipped.
C11_DedupPartition ==
    \A r \in Runs :
      Processing(r) =>
         LET kept == NotLoaded(r)
             attempts == UploadAttempts(r)
         IN /\ new_files[r] = kept
            /\ \A i \in attempts :
                  /\ calls[i].iter \in 1..Len(kept)
                  /\ calls[i].file = kept[calls[i].iter]
                  /\ \A k \in attempts :
                        (k < i) => calls[k].iter < calls[i].iter
            /\ pc[r] = "done" =>
                  \A n \in 1..Len(kept) :
                     \E i \in attempts : calls[i].iter = n
            /\ \A j \in Finished(r) :
                  LET md == log[j].metadata
                  IN /\ md.files_found = md.files_new + md.files_skipped
                     /\ md.files_found = Len(files[r])
                     /\ md.files_new = Len(kept)

\* Witness: 3 files found of which 1 was already loaded: 2 new, 1 skipped,
\* 2 uploads, 2 archives, files_success 2, files_failure 0, status SUCCESS.
C11_Witness ==
    \E r \in Runs : \E j \in Finished(r) :
       /\ pc[r] = "done"
       /\ Cardinality(loaded_ids[r]) = 1
       /\ log[j].metadata = [files_found |-> 3, files_new |-> 2,
                             files_skipped |-> 1, files_success |-> 2,
                             files_failure |-> 0]
       /\ log[j].status = "SUCCESS"
       /\ Cardinality(UploadAttempts(r)) = 2
       /\ Cardinality(CallsTo(r, {"archive"})) = 2

(***************************************************************************)
(* C12 -- Skipped files are silent: for a discovered file whose stable_key *)
(* is in the already-loaded set, the run calls neither upload nor archive  *)
(* nor an event write for it and writes no row whose entity_id is that     *)
(* key; the FINISHED row counts these files in files_skipped.              *)
(***************************************************************************)
Skipped(r) == { n \in 1..Len(files[r]) : stable_key(files[r][n]) \in loaded_ids[r] }

\* C12: a file whose key is in the already-loaded set gets no upload, no
\* archive and no event with its key as entity_id in this run; the skipped
\* files show only as the files_skipped count of the FINISHED event.
C12_SkippedSilent ==
    \A r \in Runs :
      Processing(r) =>
         LET skipped == Skipped(r)
             file_calls == CallsTo(r, FileOps)
             rows == EventsOf(r)
         IN /\ \A n \in skipped :
                  /\ \A i \in file_calls :
                        stable_key(calls[i].file) # stable_key(files[r][n])
                  /\ \A j \in rows :
                        log[j].entity_id # stable_key(files[r][n])
            /\ \A j \in Finished(r) :
                  log[j].metadata.files_skipped = Cardinality(skipped)

\* Witness: a run that returned after skipping two files and uploading one.
C12_Witness ==
    \E r \in Runs : \E j \in Finished(r) :
       /\ pc[r] = "done"
       /\ Cardinality(Skipped(r)) = 2
       /\ log[j].metadata.files_skipped = 2
       /\ Cardinality(Returned(r, {"upload"})) = 1
       /\ Cardinality(EventsOf(r)) = 3

(***************************************************************************)
(* C13 -- Per-file ordering: every archive(f) call comes after upload(f)   *)
(* returned and after the INGEST/SUCCESS row of f was written, in that     *)
(* order within the same loop iteration; no archive call is made in an     *)
(* iteration whose upload raised or whose success write raised.            *)
(***************************************************************************)
SameIteration(i, k) ==
    /\ calls[i].run = calls[k].run
    /\ calls[i].iter = calls[k].iter
    /\ calls[i].file = calls[k].file

\* C13: archive(f) is called only after upload(f) returned and the
\* INGEST/SUCCESS event of f was written, in that order, and never for a
\* file whose upload raised or whose success event was not written.
C13_ArchiveAfterLoggedUpload ==
    \A r \in Runs :
      LET archives == CallsTo(r, {"archive"})
          uploads == Returned(r, {"upload"})
          writes == Returned(r, {"log_ingest_success"})
          rows == Ingests(r, "SUCCESS")
      IN /\ \A i \in archives :
               \E u \in uploads : \E w \in writes :
                  /\ u < w /\ w < i
                  /\ SameIteration(u, i) /\ SameIteration(w, i)
                  /\ \E j \in rows :
                        /\ log[j].event_id = calls[w].event_id
                        /\ log[j].entity_id = stable_key(calls[i].file)
         /\ \A i \in RaisedIn(r, {"upload", "log_ingest_success"}) :
               \A k \in archives : calls[k].iter # calls[i].iter

\* Witness: one run in which a file was uploaded, logged and archived, the
\* upload of another raised and the success write of a third raised.
C13_Witness ==
    \E r \in Runs :
       /\ Returned(r, {"archive"}) # {}
       /\ RaisedIn(r, {"upload"}) # {}
       /\ RaisedIn(r, {"log_ingest_success"}) # {}
       /\ Cardinality(CallsTo(r, {"archive"})) = 1

(***************************************************************************)
(* C14 -- Crash recovery: the rows of an interrupted run are complete      *)
(* events, one per event write that returned and in the order of those     *)
(* writes, beginning with STARTED and without FINISHED; a later run skips  *)
(* every discovered file that has an INGEST/SUCCESS row of an earlier run: *)
(* no upload, no archive, no event write and no new row for it.            *)
(***************************************************************************)
EventFields ==
    {"run_id", "event_id", "event_level", "event_type", "component",
     "entity_type", "entity_id", "status", "message", "error_code",
     "error_details", "metadata"}

\* Position of x among the members of S.
RankIn(S, x) == Cardinality({ y \in S : y <= x })

\* The rows of run r are the event writes of r that returned, in order.
RowsAreReturnedWrites(r) ==
    /\ Cardinality(EventsOf(r)) = Cardinality(Returned(r, WriteOps))
    /\ \A j \in EventsOf(r) :
          /\ DOMAIN log[j] = EventFields
          /\ \E w \in Returned(r, WriteOps) :
                /\ RankIn(Returned(r, WriteOps), w) = RankIn(EventsOf(r), j)
                /\ calls[w].event_id = log[j].event_id

PartialTrail(r) ==
    /\ RowsAreReturnedWrites(r)
    /\ EventsOf(r) # {} => IsStarted(log[Min(EventsOf(r))])
    /\ Cardinality(Started(r)) <= 1
    /\ Finished(r) = {}

\* Run b leaves alone every discovered file logged SUCCESS by run a.
SkipsLoggedBy(a, b) ==
    \A j \in Ingests(a, "SUCCESS") : \A n \in 1..Len(files[b]) :
       stable_key(files[b][n]) = log[j].entity_id =>
          /\ n \in Skipped(b)
          /\ \A i \in CallsTo(b, FileOps) :
                stable_key(calls[i].file) # log[j].entity_id
          /\ \A k \in EventsOf(b) : log[k].entity_id # log[j].entity_id

\* C14: an interrupted run leaves only complete events forming a prefix of
\* its event sequence, and the next run skips every file that has an
\* INGEST/SUCCESS event in the log (no upload, no archive, no new event).
C14_CrashRecovery ==
    \A a \in Runs :
      Crashed(a) =>
         /\ PartialTrail(a)
         /\ \A b \in Runs : (b > a /\ Processing(b)) => SkipsLoggedBy(a, b)

\* Witness: a run interrupted right after the success write of its first
\* file (before archive), and a next run on the same files that returned
\* after skipping that file and uploading another.
C14_Witness ==
    \E a \in Runs : \E b \in Runs :
       /\ Crashed(a) /\ b > a /\ pc[b] = "done"
       /\ calls[Max(CallsOf(a))].op = "log_ingest_success"
       /\ calls[Max(CallsOf(a))].outcome = "returned"
       /\ Cardinality(Ingests(a, "SUCCESS")) = 1
       /\ Len(new_files[a]) >= 2
       /\ files[b] = files[a]
       /\ Skipped(b) # {}
       /\ Returned(b, {"upload"}) # {}

(***************************************************************************)
(* C15 -- already_loaded(keys) returns exactly the keys of its argument    *)
(* that have a row with entity_type FILE, event_type INGEST and status     *)
(* SUCCESS in the table: not the keys that have INGEST/FAILURE rows only,  *)
(* not the keys that are entity_id of RUN rows only, nothing else.         *)
(***************************************************************************)
HasRow(table, k, etype2, etype, st) ==
    \E j \in 1..Len(table) :
       /\ table[j].entity_id = k
       /\ table[j].entity_type = etype2
       /\ table[j].event_type = etype
       /\ table[j].status = st

AlreadyLoadedReturned ==
    call.op = "already_loaded" /\ call.outcome = "returned"

\* C15: the set returned by already_loaded(keys) is the subset of keys with
\* at least one FILE/INGEST/SUCCESS row; keys with only INGEST/FAILURE rows
\* or only RUN rows, and values outside keys, are not returned.
C15_AlreadyLoadedExact ==
    AlreadyLoadedReturned =>
       /\ call.result =
             { k \in Range(call.file_keys) : HasRow(log, k, "FILE", "INGEST", "SUCCESS") }
       /\ call.result \subseteq Range(call.file_keys)
       /\ \A k \in Range(call.file_keys) :
             /\ (/\ HasRow(log, k, "FILE", "INGEST", "FAILURE")
                 /\ ~HasRow(log, k, "FILE", "INGEST", "SUCCESS")) => k \notin call.result
             /\ (/\ \E st \in {"STARTED", "SUCCESS", "FAILURE"} :
                       HasRow(log, k, "RUN", "RUN", st)
                 /\ ~HasRow(log, k, "FILE", "INGEST", "SUCCESS")) => k \notin call.result

\* Witness: a call with a key logged SUCCESS and the key of a run that
\* finished SUCCESS returns the first only.
C15_Witness ==
    /\ AlreadyLoadedReturned
    /\ Len(call.file_keys) = 2
    /\ Cardinality(call.result) = 1
    /\ HasRow(log, uuid4(1), "RUN", "RUN", "SUCCESS")
    /\ uuid4(1) \in Range(call.file_keys)

(***************************************************************************)
(* C16 -- already_loaded with no keys returns the empty set, opens no      *)
(* connection (so it returns even while the store is down) and leaves the  *)
(* table as it was.                                                        *)
(***************************************************************************)
\* C16: already_loaded with an empty key collection returns the empty set
\* without opening a connection or querying, and leaves the log unchanged.
C16_EmptyKeysNoRoundTrip ==
    (call.op = "already_loaded" /\ call.file_keys = <<>>) =>
       /\ call.outcome = "returned"
       /\ call.result = {}
       /\ connections = call.connections_before
       /\ log = call.table_before

\* Witness: the call made with no keys on a table that holds a SUCCESS row
\* while the store is down, after a call with keys that connected.
C16_Witness ==
    /\ call.op = "already_loaded"
    /\ call.file_keys = <<>>
    /\ ~call.store_up
    /\ call.result = {}
    /\ connections = 2
    /\ \E k \in FileKeys : HasRow(log, k, "FILE", "INGEST", "SUCCESS")

(***************************************************************************)
(* C17 -- Append-only audit trail: every step of every run() leaves the    *)
(* rows that were in the table in place and unchanged; it can only add     *)
(* rows after them.                                                        *)
(***************************************************************************)
\* C17: across any sequence of run() invocations every event present
\* before a pipeline step is still present and unchanged after it.
C17_AppendOnly ==
    [][/\ Len(log') >= Len(log)
       /\ SubSeq(log', 1, Len(log)) = log]_vars

\* Witness: a file logged FAILURE by one run and SUCCESS by the next: two
\* rows of the same entity_id, the older one still there.
C17_Witness ==
    \E a \in Runs : \E b \in Runs :
    \E i \in Ingests(a, "FAILURE") : \E j \in Ingests(b, "SUCCESS") :
       /\ a < b /\ i < j
       /\ log[i].entity_id = log[j].entity_id
       /\ pc[b] = "done"

(***************************************************************************)
(* C18 -- stable_key is a function of (name, size_bytes, whole second of   *)
(* modified_time), and an injective one: read twice it is the same string; *)
(* two files have the same key exactly when they agree on the three,       *)
(* whatever their directories and sub-second parts.                        *)
(***************************************************************************)
KeyTriple(f) == <<name(f), f.size_bytes, timestamp_int(f.modified_time)>>

\* C18: two FileIdentity values equal in name, size_bytes and modification
\* second have the same stable_key, reading it twice gives the same
\* string, and a change of any one of the three changes the key.
C18_StableKeyInjective ==
    call.op = "stable_key" =>
       /\ call.key = call.again
       /\ KeyTriple(call.file) = KeyTriple(call.other)
             <=> call.key = call.other_key
       /\ \A c \in 1..3 :
             KeyTriple(call.file)[c] # KeyTriple(call.other)[c]
                => call.key # call.other_key

\* Witness: two files of different directories and sub-second parts with
\* one key.
C18_Witness ==
    /\ call.op = "stable_key"
    /\ call.file.path.parent # call.other.path.parent
    /\ call.file.modified_time # call.other.modified_time
    /\ call.file.path.name = "a.csv|1"
    /\ call.key = call.other_key

(***************************************************************************)
(* C19 -- Upload destination: upload(file) returns a location reference    *)
(* string, the destination field of every INGEST/SUCCESS row is the value  *)
(* upload returned for that file, and with S3Uploader that value is the    *)
(* object's s3://bucket/key reference.                                     *)
(***************************************************************************)
\* The file of the success write that produced row j.
FileOfRow(r, j) ==
    calls[CHOOSE w \in Returned(r, {"log_ingest_success"}) :
             calls[w].event_id = log[j].event_id].file

\* C19: upload returns a location reference string and every
\* INGEST/SUCCESS event stores it as metadata.destination; with S3Uploader
\* it is the s3://bucket/key reference of the uploaded object.
C19_DestinationIsUploadReference ==
    \A r \in Runs : \A j \in Ingests(r, "SUCCESS") :
       /\ log[j].metadata.destination = upload(FileOfRow(r, j))
       /\ log[j].metadata.destination # None
       /\ log[j].metadata.destination = s3_uri(FileOfRow(r, j))

(***************************************************************************)
(* C20 -- ArchiveLocalFiles.archive never raises to its caller, whichever  *)
(* way the move fails (missing source, permission error, target name       *)
(* already in the archive, any other exception); when the target name is   *)
(* already in the archive directory, the source file stays where it is and *)
(* the archived file of that name keeps its content.                       *)
(***************************************************************************)
\* C20: archive() returns normally for every failure class of the move,
\* and on a name collision the source file stays in the discovery
\* directory and the archive directory is unchanged, the existing file not
\* overwritten.
C20_ArchiverNeverRaises ==
    call.op = "archive" =>
       /\ call.outcome = "returned"
       /\ exists(call.archive_before, name(call.file)) =>
             /\ src_dir = call.src_before
             /\ archive_dir = call.archive_before
             /\ Cardinality({ e \in archive_dir : e.name = name(call.file) }) = 1

(***************************************************************************)
(* C21 -- Call counts per run: list_files once; already_loaded at most     *)
(* once, once when the discovery is not empty, with the stable keys of all *)
(* discovered files; upload once per new file; archive at most once per    *)
(* new file and once for each file whose INGEST/SUCCESS row was written.   *)
(***************************************************************************)
\* Calls of run r to op in loop iteration n.
InIteration(r, op, n) == { i \in CallsTo(r, {op}) : calls[i].iter = n }

\* C21: per run, list_files is called exactly once, already_loaded at most
\* once (exactly once for a non-empty discovery) with the keys of all
\* discovered files, upload exactly once per new file, archive at most once
\* per new file and exactly once per file whose SUCCESS event was written.
C21_CallCounts ==
    \A r \in Runs :
      LET finder == CallsTo(r, {"list_files"})
          dedup == CallsTo(r, {"already_loaded"})
      IN /\ Cardinality(finder) <= 1
         /\ Cardinality(dedup) <= 1
         /\ \A i \in dedup :
               /\ files[r] # <<>>
               /\ calls[i].file_keys = [n \in 1..Len(files[r]) |->
                                          stable_key(files[r][n])]
         /\ \A n \in 1..Len(new_files[r]) :
               /\ Cardinality(InIteration(r, "upload", n)) <= 1
               /\ Cardinality(InIteration(r, "archive", n)) <= 1
               /\ \A w \in InIteration(r, "log_ingest_success", n) :
                     calls[w].outcome = "returned" =>
                        \/ pc[r] = "archive" /\ idx[r] = n
                        \/ Cardinality(InIteration(r, "archive", n)) = 1
         /\ \A i \in CallsTo(r, {"upload", "archive"}) :
               calls[i].iter \in 1..Len(new_files[r])
         /\ pc[r] = "done" =>
               /\ Cardinality(finder) = 1
               /\ files[r] # <<>> => Cardinality(dedup) = 1
               /\ \A n \in 1..Len(new_files[r]) :
                     /\ Cardinality(InIteration(r, "upload", n)) = 1
                     /\ Cardinality(InIteration(r, "archive", n)) =
                           Cardinality({ j \in Ingests(r, "SUCCESS") :
                              \E w \in InIteration(r, "log_ingest_success", n) :
                                 calls[w].event_id = log[j].event_id })

\* Witness: a run over three discovered files that returned after one
\* dedup call, three uploads, and two archive calls (one upload raised).
C21_Witness ==
    \E r \in Runs :
       /\ pc[r] = "done"
       /\ Len(files[r]) = 3
       /\ Cardinality(CallsTo(r, {"already_loaded"})) = 1
       /\ Cardinality(CallsTo(r, {"upload"})) = 3
       /\ Cardinality(CallsTo(r, {"archive"})) = 2
       /\ Cardinality(Ingests(r, "SUCCESS")) = 2

(***************************************************************************)
(* C22 -- Sequential processing in discovery order: all operations on a    *)
(* new file complete before the upload of a later one starts, and the      *)
(* FINISHED event is written after the operations of the last file.        *)
(***************************************************************************)
\* The new files keep the order in which list_files returned them: of two
\* entries of new_files the earlier is an earlier entry of files.
InDiscoveryOrder(r) ==
    \A m \in 1..Len(new_files[r]) : \A n \in 1..Len(new_files[r]) :
       m < n => \E p \in 1..Len(files[r]) : \E q \in 1..Len(files[r]) :
                   /\ p < q
                   /\ files[r][p] = new_files[r][m]
                   /\ files[r][q] = new_files[r][n]

\* C22: within one run, the operations on a new file discovered earlier
\* all precede every operation on one discovered later, the operations on
\* one file are upload, then its INGEST event, then archive, and the
\* FINISHED write comes after the operations of every new file.  A file is
\* taken by its place in the list, so a list with one file at two places
\* is covered.
C22_SequentialInDiscoveryOrder ==
    \A r \in Runs :
      LET ops == CallsTo(r, FileOps)
      IN /\ InDiscoveryOrder(r)
         /\ \A i \in ops : /\ calls[i].iter \in 1..Len(new_files[r])
                           /\ calls[i].file = new_files[r][calls[i].iter]
         /\ \A i \in ops : \A j \in ops :
               calls[i].iter < calls[j].iter => i < j
         /\ \A i \in ops : \A j \in ops :
               /\ calls[i].iter = calls[j].iter
               /\ \/ calls[i].op = "upload" /\ calls[j].op # "upload"
                  \/ calls[i].op = "log_ingest_success" /\ calls[j].op = "archive"
               => i < j
         /\ \A k \in CallsTo(r, {"log_run_finished"}) :
               /\ \A i \in ops : i < k
               /\ files[r] # <<>> =>
                     \A n \in 1..Len(new_files[r]) :
                        \E i \in ops : /\ calls[i].op = "upload"
                                       /\ calls[i].iter = n

\* Witness: a run that took three files through upload, event and archive
\* and wrote its FINISHED event.
C22_Witness ==
    \E r \in Runs :
       /\ pc[r] = "done"
       /\ Len(new_files[r]) = 3
       /\ Cardinality(Returned(r, {"archive"})) = 3
       /\ Finished(r) # {}

(***************************************************************************)
(* C23 -- No run-level mutual exclusion: two overlapping invocations can   *)
(* both take the same file as new, both upload it and both log             *)
(* INGEST/SUCCESS for its stable_key.                                      *)
(***************************************************************************)
\* The event writes that returned with an INGEST/SUCCESS row for key k.
SuccessWrites(k) ==
    { w \in CallIdx : /\ calls[w].op = "log_ingest_success"
                      /\ calls[w].outcome = "returned"
                      /\ stable_key(calls[w].file) = k }

\* Run r made no call that raised.
NothingRaised(r) == \A i \in CallsOf(r) : calls[i].outcome = "returned"

\* C23: when the dedup checks of two invocations both returned before any
\* INGEST/SUCCESS event for a discovered file's key was written, the file
\* is new in both; each of them that returns without a failing call has
\* uploaded it and written an INGEST/SUCCESS row for the same stable_key.
C23_NoMutualExclusion ==
    \A r \in Overlapping : \A q \in Overlapping \ {r} :
      LET checks == Returned(r, {"already_loaded"}) \cup
                    Returned(q, {"already_loaded"})
      IN \A n \in 1..Len(files[r]) :
           LET f == files[r][n]
               k == stable_key(f)
           IN /\ Returned(r, {"already_loaded"}) # {}
              /\ Returned(q, {"already_loaded"}) # {}
              /\ \E m \in 1..Len(files[q]) : files[q][m] = f
              /\ \A w \in SuccessWrites(k) : \A c \in checks : c < w
              => /\ \E m \in 1..Len(new_files[r]) : new_files[r][m] = f
                 /\ \E m \in 1..Len(new_files[q]) : new_files[q][m] = f
                 /\ pc[r] = "done" /\ NothingRaised(r) =>
                       /\ \E u \in Returned(r, {"upload"}) : calls[u].file = f
                       /\ \E j \in Ingests(r, "SUCCESS") : log[j].entity_id = k

\* Witness: both invocations overlapped (the second wrote STARTED before
\* the first wrote FINISHED), both returned, both uploaded the same file
\* and the table holds two INGEST/SUCCESS rows for its stable_key.
C23_Witness ==
    \E r \in Overlapping : \E q \in Overlapping \ {r} :
       /\ pc[r] = "done" /\ pc[q] = "done"
       /\ \E i \in Started(q) : \E j \in Finished(r) : i < j
       /\ \E i \in Started(r) : \E j \in Finished(q) : i < j
       /\ \E u \in Returned(r, {"upload"}) : \E v \in Returned(q, {"upload"}) :
             calls[u].file = calls[v].file
       /\ \E i \in Ingests(r, "SUCCESS") : \E j \in Ingests(q, "SUCCESS") :
             log[i].entity_id = log[j].entity_id

(***************************************************************************)
(* C24 -- Termination: with a finite discovery and collaborators whose     *)
(* calls return or raise, every run() ends by writing FINISHED and         *)
(* returning or by raising; it processes no file more than once.           *)
(***************************************************************************)
\* Run r has returned after its FINISHED event or has raised to the caller.
RunEnded(r) ==
    \/ pc[r] = "done" /\ Finished(r) # {}
    \/ pc[r] = "raised" /\ raised[r] # NoExc

\* Every run that has begun eventually returns after its FINISHED event or
\* raises to the caller.
RunEnds == \A r \in Runs : (pc[r] # "idle") ~> RunEnded(r)

\* The same in two parts: a run that has begun has begun for good, and no
\* run stays forever in an intermediate state (again and again it has not
\* begun or has ended).  Together they give RunEnds: a run that has begun
\* is at no later time idle, so the time at which it is idle or ended is a
\* time at which it has ended.
RunNeverStays ==
    /\ [][\A r \in Runs : pc[r] # "idle" => pc'[r] # "idle"]_vars
    /\ \A r \in Runs : []<>(pc[r] = "idle" \/ RunEnded(r))

\* C24 as claimed: every run that has begun eventually returns after its
\* FINISHED event or raises to the caller, and at no time has a run made
\* two upload calls for one file.
C24_Termination ==
    /\ [](\A r \in Runs : \A i \in CallsTo(r, {"upload"}) :
            \A j \in CallsTo(r, {"upload"}) :
               i # j => calls[i].file # calls[j].file)
    /\ RunEnds

\* C24 as amended: every run that has begun eventually returns after its
\* FINISHED event or raises to the caller, and at no time has a run made
\* two calls of one operation for one entry of new_files: each call is for
\* the file at that entry, so a file is processed once per entry that
\* list_files returned for it.
C24_TerminationOncePerEntry ==
    /\ [](\A r \in Runs : \A i \in CallsTo(r, FileOps) :
            /\ calls[i].iter \in 1..Len(new_files[r])
            /\ calls[i].file = new_files[r][calls[i].iter]
            /\ \A j \in CallsTo(r, FileOps) :
                  (i # j /\ calls[i].op = calls[j].op)
                     => calls[i].iter # calls[j].iter)
    /\ RunNeverStays

\* Witness: one run raised to the caller and another, to which list_files
\* returned one file twice, uploaded it at both entries and returned after
\* its FINISHED event.
C24_Witness ==
    \E r \in Runs : \E q \in Runs :
       /\ pc[q] = "raised" /\ raised[q] # NoExc
       /\ pc[r] = "done"
       /\ Len(new_files[r]) = 2
       /\ new_files[r][1] = new_files[r][2]
       /\ Cardinality(Returned(r, {"upload"})) = 2
       /\ Cardinality(Returned(r, {"archive"})) = 2
       /\ Finished(r) # {}

(***************************************************************************)
(* C25 -- Misconfiguration is fatal before any side effect: with a         *)
(* required setting missing or blank, required_value raises and main()     *)
(* ends with that exception before the pipeline is constructed.            *)
(***************************************************************************)
\* Positions, in reading order, of the settings that are not set or hold
\* only white space.
MissingOrBlank(env) ==
    { k \in 1..Len(Settings) : env[Settings[k]] \in {None, "", "   "} }

\* C25: when a required setting is missing or blank, main() never reads
\* past the first such setting, it ends with the RuntimeError of
\* required_value naming that setting, and no event was written, no
\* collaborator was called, no run began and no file was moved.
C25_MisconfigurationFatal ==
    call.op = "main" /\ MissingOrBlank(call.env) # {} =>
       LET first == Min(MissingOrBlank(call.env))
       IN /\ call.read < first
          /\ call.at = "raised" =>
                /\ call.read = first - 1
                /\ call.exc = Exc("RuntimeError",
                      "Missing required environment variable: "
                         \o Settings[first])
          /\ log = <<>>
          /\ calls = <<>>
          /\ \A r \in Runs : pc[r] = "idle"
          /\ src_dir = {} /\ archive_dir = {}

\* Witness: main() ended on a blank Snowflake setting after reading the
\* settings before it.
C25_Witness ==
    /\ call.op = "main"
    /\ call.at = "raised"
    /\ call.env["SNOWFLAKE_ROLE"] = "   "
    /\ call.read = 12
    /\ call.exc.cls = "RuntimeError"

(***************************************************************************)
(* C26 -- Event identity fields: every event of a run carries the run's    *)
(* run_id and the component; run events are RUN/RUN with entity_id the     *)
(* run_id, per-file events are FILE/INGEST with entity_id the stable_key;  *)
(* different runs have different run_ids.                                  *)
(***************************************************************************)
\* The event writes of run r that returned with the row j of the table.
WritesOfRow(r, j) ==
    { w \in Returned(r, WriteOps) : calls[w].event_id = log[j].event_id }

\* C26: a row written by a call of run r has run_id[r] and the pipeline's
\* component; written by log_run_started or log_run_finished it has
\* entity_type RUN, event_type RUN and entity_id = run_id[r]; written by
\* log_ingest_success or log_ingest_failure it has entity_type FILE,
\* event_type INGEST and entity_id = the stable_key of the call's file;
\* two runs that have begun have different run_ids.
C26_EventIdentityFields ==
    /\ \A r \in Runs : \A j \in LogIdx : \A w \in WritesOfRow(r, j) :
          /\ log[j].run_id = run_id[r]
          /\ log[j].component = component
          /\ calls[w].op \in {"log_run_started", "log_run_finished"} =>
                /\ log[j].entity_type = "RUN"
                /\ log[j].event_type = "RUN"
                /\ log[j].entity_id = run_id[r]
                /\ log[j].status \in {"STARTED", "SUCCESS", "FAILURE"}
          /\ calls[w].op \in {"log_ingest_success", "log_ingest_failure"} =>
                /\ log[j].entity_type = "FILE"
                /\ log[j].event_type = "INGEST"
                /\ log[j].entity_id = stable_key(calls[w].file)
                /\ log[j].status \in {"SUCCESS", "FAILURE"}
    /\ \A j \in LogIdx : \E r \in Runs : WritesOfRow(r, j) # {}
    /\ \A r \in Runs : \A q \in Runs :
          r # q /\ pc[r] # "idle" /\ pc[q] # "idle" => run_id[r] # run_id[q]

\* Witness: two runs wrote STARTED, INGEST/SUCCESS, INGEST/FAILURE and
\* FINISHED rows between them.
C26_Witness ==
    /\ \A r \in Runs : Started(r) # {} /\ Finished(r) # {}
    /\ \E r \in Runs : Ingests(r, "SUCCESS") # {}
    /\ \E r \in Runs : Ingests(r, "FAILURE") # {}

(***************************************************************************)
(* C27 -- Run event bracket: a run that returns normally has written one   *)
(* STARTED event first, then its INGEST events, then one FINISHED event    *)
(* last.                                                                   *)
(***************************************************************************)
\* C27: the rows of a run that returned are exactly one STARTED row, the
\* first, INGEST rows, and exactly one FINISHED row, the last; at no time
\* does a row of a run follow its FINISHED row or an INGEST row of a run
\* precede its STARTED row.
C27_RunEventBracket ==
    \A r \in Runs :
      LET rows == EventsOf(r)
          started == Started(r)
          finished == Finished(r)
          ingests == Ingests(r, "SUCCESS") \cup Ingests(r, "FAILURE")
      IN /\ pc[r] = "done" =>
               /\ Cardinality(started) = 1
               /\ Cardinality(finished) = 1
               /\ started = {Min(rows)}
               /\ finished = {Max(rows)}
               /\ rows = started \cup ingests \cup finished
         /\ \A k \in finished : \A j \in rows : j <= k
         /\ \A i \in ingests : \E j \in started : j < i
         /\ Cardinality(started) <= 1
         /\ Cardinality(finished) <= 1

\* Witness: a returned run whose rows are STARTED, an INGEST/SUCCESS, an
\* INGEST/FAILURE and FINISHED, followed in the table by rows of a later
\* run.
C27_Witness ==
    \E r \in Runs : \E q \in Runs :
       /\ pc[r] = "done"
       /\ Cardinality(EventsOf(r)) = 4
       /\ Ingests(r, "SUCCESS") # {}
       /\ Ingests(r, "FAILURE") # {}
       /\ \E j \in EventsOf(q) : j > Max(EventsOf(r))

(***************************************************************************)
(* C28 -- Exactly one outcome event per new file: in a run that reaches    *)
(* its FINISHED event each new file has exactly one INGEST event,          *)
(* SUCCESS or FAILURE, whatever uploader, archiver and repository do.      *)
(***************************************************************************)
\* The INGEST rows of run r written in the iteration for new_files[r][n].
OutcomesOf(r, n) ==
    { j \in Ingests(r, "SUCCESS") \cup Ingests(r, "FAILURE") :
         \E w \in Returned(r, {"log_ingest_success", "log_ingest_failure"}) :
            /\ calls[w].iter = n
            /\ calls[w].event_id = log[j].event_id }

\* C28: in a run that wrote its FINISHED event, every new file has exactly
\* one INGEST row of that run.
C28_OneOutcomePerFile ==
    \A r \in Runs :
       Finished(r) # {} =>
          \A n \in 1..Len(new_files[r]) : Cardinality(OutcomesOf(r, n)) = 1

(***************************************************************************)
(* C29 -- Counters agree with the log: in the FINISHED event files_success *)
(* is the number of INGEST/SUCCESS events of the run and files_failure the *)
(* number of its INGEST/FAILURE events.                                    *)
(***************************************************************************)
\* C29: the FINISHED row of a run that went through the loop has
\* files_success = number of INGEST/SUCCESS rows of the run and
\* files_failure = number of INGEST/FAILURE rows of the run.
C29_CountersAgreeWithLog ==
    \A r \in Runs : \A j \in Finished(r) :
       "files_success" \in DOMAIN log[j].metadata =>
          /\ log[j].metadata.files_success = Cardinality(Ingests(r, "SUCCESS"))
          /\ log[j].metadata.files_failure = Cardinality(Ingests(r, "FAILURE"))

(***************************************************************************)
(* C30 -- Counter conservation: in the per-file loop success_count +       *)
(* failure_count is the number of new files already processed, so a        *)
(* FINISHED event with the counters has files_new = files_success +        *)
(* files_failure and 0 <= files_new <= files_found.                        *)
(***************************************************************************)
\* The iterations of run r that have ended: archive returned, or the
\* handler wrote its INGEST/FAILURE event.
Processed(r) ==
    { n \in 1..Len(new_files[r]) :
         \E i \in Returned(r, {"archive", "log_ingest_failure"}) :
            calls[i].iter = n }

\* C30: while run r is in the loop or has returned from it, success_count +
\* failure_count = the number of iterations that have ended = idx - 1; a
\* run that left the loop by an exception of its handler has counted the
\* file it was at; and every FINISHED row with the counters has
\* files_new = files_success + files_failure, 0 <= files_new <= files_found.
C30_CounterConservation ==
    \A r \in Runs :
       /\ Processing(r) /\ pc[r] # "raised" =>
             /\ success_count[r] + failure_count[r] = Cardinality(Processed(r))
             /\ Cardinality(Processed(r)) = idx[r] - 1
             /\ Processed(r) = 1..(idx[r] - 1)
       /\ Processing(r) /\ pc[r] = "raised" =>
             success_count[r] + failure_count[r]
                \in {Cardinality(Processed(r)), Cardinality(Processed(r)) + 1}
       /\ \A j \in Finished(r) :
             "files_new" \in DOMAIN log[j].metadata =>
                LET m == log[j].metadata
                IN /\ m.files_new = m.files_success + m.files_failure
                   /\ 0 <= m.files_new
                   /\ m.files_new <= m.files_found
                   /\ m.files_new = Len(new_files[r])

\* Witness: a run wrote a FINISHED row counting two successes and one
\* failure out of three new files, and the next run has counted the one
\* file left to it as a failure and is about to leave the loop.
C30_Witness ==
    \E r \in Runs : \E q \in Runs :
       /\ pc[r] = "loop"
       /\ Len(new_files[r]) = 1
       /\ idx[r] = 2
       /\ failure_count[r] = 1
       /\ \E j \in Finished(q) :
             /\ "files_new" \in DOMAIN log[j].metadata
             /\ log[j].metadata.files_new = 3
             /\ log[j].metadata.files_success = 2
             /\ log[j].metadata.files_failure = 1

(***************************************************************************)
(* C31 -- Outcome events reflect the upload: INGEST/SUCCESS for a file     *)
(* only if its upload returned in that run, INGEST/FAILURE only if its     *)
(* upload raised.                                                          *)
(***************************************************************************)
\* The loop iterations of run r in which row j was written.
IterationsOfRow(r, j) ==
    { calls[w].iter : w \in
        { v \in Returned(r, {"log_ingest_success", "log_ingest_failure"}) :
             calls[v].event_id = log[j].event_id } }

\* C31: an INGEST/SUCCESS row of a run was written in an iteration whose
\* upload returned, and an INGEST/FAILURE row in an iteration whose upload
\* raised.
C31_OutcomeReflectsUpload ==
    \A r \in Runs :
       /\ \A j \in Ingests(r, "SUCCESS") : \A n \in IterationsOfRow(r, j) :
             \E u \in Returned(r, {"upload"}) : calls[u].iter = n
       /\ \A j \in Ingests(r, "FAILURE") : \A n \in IterationsOfRow(r, j) :
             \E u \in RaisedIn(r, {"upload"}) : calls[u].iter = n

\* C31 as the code has it: an INGEST/SUCCESS row of a run was written in an
\* iteration whose upload returned; an INGEST/FAILURE row was written in an
\* iteration in which a call of the try block raised, which is upload, or
\* the success write after upload returned, or archive after the success
\* row was written.
C31_OutcomeReflectsTryBlock ==
    \A r \in Runs :
       /\ \A j \in Ingests(r, "SUCCESS") : \A n \in IterationsOfRow(r, j) :
             \E u \in Returned(r, {"upload"}) : calls[u].iter = n
       /\ \A j \in Ingests(r, "FAILURE") : \A n \in IterationsOfRow(r, j) :
             \E u \in RaisedIn(r, {"upload", "log_ingest_success", "archive"}) :
                /\ calls[u].iter = n
                /\ calls[u].op # "upload" =>
                      \E v \in Returned(r, {"upload"}) : calls[v].iter = n
                /\ calls[u].op = "archive" =>
                      \E v \in Returned(r, {"log_ingest_success"}) :
                         calls[v].iter = n

\* Witness: upload returned for a file, the success write raised, and the
\* run wrote an INGEST/FAILURE row for that file and no INGEST/SUCCESS row.
C31_Witness ==
    \E r \in Runs : \E j \in Ingests(r, "FAILURE") :
       \E n \in IterationsOfRow(r, j) :
          /\ \E u \in Returned(r, {"upload"}) : calls[u].iter = n
          /\ \E w \in RaisedIn(r, {"log_ingest_success"}) : calls[w].iter = n
          /\ Ingests(r, "SUCCESS") = {}

(***************************************************************************)
(* C32 -- At-most-once success per key: with discoveries of pairwise       *)
(* distinct stable keys, after any sequence of non-overlapping runs the    *)
(* log holds at most one INGEST/SUCCESS event per key and upload returned  *)
(* at most once per key.                                                   *)
(***************************************************************************)
DistinctKeys(fs) ==
    \A i \in 1..Len(fs) : \A j \in 1..Len(fs) :
       stable_key(fs[i]) = stable_key(fs[j]) => i = j

\* The INGEST/SUCCESS rows of the table for key k, of any run.
SuccessRows(k) ==
    { j \in LogIdx : IsIngest(log[j], "SUCCESS") /\ log[j].entity_id = k }

\* The upload calls of any run for a file of key k that returned.
UploadsReturned(k) ==
    { u \in CallIdx : /\ calls[u].op = "upload"
                      /\ calls[u].outcome = "returned"
                      /\ stable_key(calls[u].file) = k }

\* The keys of the files discovered by any run.
DiscoveredKeys ==
    UNION { { stable_key(files[r][n]) : n \in 1..Len(files[r]) } : r \in Runs }

\* C32: when every discovery has pairwise distinct keys, the table holds
\* at most one INGEST/SUCCESS row per key and at most one upload call per
\* key has returned, over all runs.
C32_AtMostOnceSuccess ==
    (\A r \in Runs : DistinctKeys(files[r])) =>
       \A k \in DiscoveredKeys :
          /\ Cardinality(SuccessRows(k)) <= 1
          /\ Cardinality(UploadsReturned(k)) <= 1

\* C32 as the code has it: at most one INGEST/SUCCESS row per key; no
\* upload is attempted for a key after its INGEST/SUCCESS row was written;
\* and upload has returned for a key at most once more than the number of
\* times the event writes that follow an upload of that key did not write
\* the row (the success write raised).
C32_AtMostOnceLoggedSuccess ==
    (\A r \in Runs : DistinctKeys(files[r])) =>
       \A k \in DiscoveredKeys :
          LET written == SuccessWrites(k)
              failed == { w \in CallIdx :
                             /\ calls[w].op = "log_ingest_success"
                             /\ calls[w].outcome = "raised"
                             /\ stable_key(calls[w].file) = k }
          IN /\ Cardinality(SuccessRows(k)) <= 1
             /\ Cardinality(SuccessRows(k)) = Cardinality(written)
             /\ \A w \in written : \A u \in CallIdx :
                   calls[u].op = "upload" /\ stable_key(calls[u].file) = k
                      => u < w
             /\ Cardinality(UploadsReturned(k))
                   <= 1 + Cardinality(failed)

\* Witness: upload returned twice for one key, in two runs, because the
\* success write of the first raised; the table holds one INGEST/SUCCESS
\* row for the key.
C32_Witness ==
    /\ \A r \in Runs : DistinctKeys(files[r])
    /\ \E k \in DiscoveredKeys :
          /\ Cardinality(UploadsReturned(k)) = 2
          /\ Cardinality(SuccessRows(k)) = 1

(***************************************************************************)
(* C33 -- Duplicate keys in one discovery: when list_files returns two or  *)
(* more files with the same stable_key and the key is not loaded, the run  *)
(* uploads and logs INGEST/SUCCESS for that key at most once.              *)
(***************************************************************************)
\* The keys that occur at two positions of the discovery of run r.
DuplicateKeys(r) ==
    { stable_key(files[r][i]) : i \in
        { n \in 1..Len(files[r]) :
             \E m \in 1..Len(files[r]) :
                m # n /\ stable_key(files[r][m]) = stable_key(files[r][n]) } }

\* C33: for a key discovered twice by a run and not reported as loaded,
\* the run makes at most one upload call and writes at most one
\* INGEST/SUCCESS row.
C33_DuplicateKeysOnce ==
    \A r \in Runs : \A k \in DuplicateKeys(r) :
       Processing(r) /\ k \notin loaded_ids[r] =>
          /\ Cardinality({ u \in CallsTo(r, {"upload"}) :
                             stable_key(calls[u].file) = k }) <= 1
          /\ Cardinality({ j \in Ingests(r, "SUCCESS") :
                             log[j].entity_id = k }) <= 1

\* C33 as the code has it: the partition is per file, not per key.  For a
\* key discovered at m >= 2 positions and not reported as loaded, all m
\* files are in new_files; each gets at most one upload call, exactly one
\* in a run that returned; and the run writes one INGEST/SUCCESS row with
\* that entity_id for each of them whose success write returned.
C33_DuplicateKeysEachProcessed ==
    \A r \in Runs : \A k \in DuplicateKeys(r) :
       Processing(r) /\ k \notin loaded_ids[r] =>
          LET found == { n \in 1..Len(files[r]) : stable_key(files[r][n]) = k }
              new == { n \in 1..Len(new_files[r]) :
                          stable_key(new_files[r][n]) = k }
              uploads == { u \in CallsTo(r, {"upload"}) :
                              stable_key(calls[u].file) = k }
          IN /\ Cardinality(new) = Cardinality(found)
             /\ Cardinality(uploads) <= Cardinality(found)
             /\ \A u \in uploads : calls[u].iter \in new
             /\ \A u \in uploads : \A v \in uploads :
                   calls[u].iter = calls[v].iter => u = v
             /\ pc[r] = "done" => Cardinality(uploads) = Cardinality(found)
             /\ Cardinality({ j \in Ingests(r, "SUCCESS") : log[j].entity_id = k })
                   = Cardinality({ w \in Returned(r, {"log_ingest_success"}) :
                                      calls[w].iter \in new })

\* Witness: a run that returned after uploading two files of one key and
\* writing two INGEST/SUCCESS rows with the same entity_id.
C33_Witness ==
    \E r \in Runs : \E k \in DuplicateKeys(r) :
       /\ pc[r] = "done"
       /\ k \notin loaded_ids[r]
       /\ Cardinality({ u \in Returned(r, {"upload"}) :
                          stable_key(calls[u].file) = k }) = 2
       /\ Cardinality({ j \in Ingests(r, "SUCCESS") : log[j].entity_id = k }) = 2

(***************************************************************************)
(* C34 -- Failed files are retried: a file whose only INGEST events are    *)
(* FAILURE events, discovered again with the same key by a later run, is   *)
(* in new_files of that run and upload is attempted again; if that upload  *)
(* succeeds the file is skipped by all runs after it.                      *)
(***************************************************************************)
\* The call that wrote the INGEST row j (none for a row of an earlier
\* process).
WriterOf(j) ==
    { w \in CallIdx :
         /\ calls[w].outcome = "returned"
         /\ calls[w].event_id = log[j].event_id
         /\ calls[w].op = IF log[j].status = "SUCCESS"
                          THEN "log_ingest_success" ELSE "log_ingest_failure" }

\* The INGEST rows with status st for key k that were in the table when
\* call d was made.
IngestsBefore(k, st, d) ==
    { j \in LogIdx : /\ IsIngest(log[j], st)
                     /\ log[j].entity_id = k
                     /\ \A w \in WriterOf(j) : w < d }

\* The file at position n of the discovery of run r had only FAILURE
\* events when r made its dedup check.
FailedOnly(r, n) ==
    \E d \in Returned(r, {"already_loaded"}) :
       /\ IngestsBefore(stable_key(files[r][n]), "FAILURE", d) # {}
       /\ IngestsBefore(stable_key(files[r][n]), "SUCCESS", d) = {}

\* Run r retried position n of its discovery: the file is new and, once the
\* run has returned, an upload was attempted for it.
Retried(r, n) ==
    /\ \E m \in 1..Len(new_files[r]) : new_files[r][m] = files[r][n]
    /\ pc[r] = "done" =>
          \E u \in CallsTo(r, {"upload"}) : calls[u].file = files[r][n]

\* Every run after r that discovered the key k and made its dedup check
\* skipped it.
SkippedAfter(r, k) ==
    \A q \in Runs :
       q > r /\ Processing(q)
             /\ (\E m \in 1..Len(files[q]) : stable_key(files[q][m]) = k)
       => /\ k \in loaded_ids[q]
          /\ \A u \in CallsTo(q, {"upload"}) : stable_key(calls[u].file) # k

\* C34: a file with only FAILURE events is retried by a later run that
\* discovers it, and if the upload of that run returned, every run after
\* it skips the file.
C34_FailedFilesRetried ==
    \A r \in Runs : \A n \in 1..Len(files[r]) :
       FailedOnly(r, n) =>
          /\ Retried(r, n)
          /\ (\E u \in Returned(r, {"upload"}) : calls[u].file = files[r][n])
                => SkippedAfter(r, stable_key(files[r][n]))

\* C34 as the code has it: the file is retried, and every run after it
\* skips the file if the INGEST/SUCCESS event that follows the upload was
\* written.
C34_FailedFilesRetriedUntilLogged ==
    \A r \in Runs : \A n \in 1..Len(files[r]) :
       FailedOnly(r, n) =>
          /\ Retried(r, n)
          /\ (\E w \in Returned(r, {"log_ingest_success"}) :
                 calls[w].file = files[r][n])
                => SkippedAfter(r, stable_key(files[r][n]))

\* Witness: the file failed before, a run retried it, its upload returned
\* and its INGEST/SUCCESS event was written, and the next run discovered
\* it and skipped it.
C34_Witness ==
    \E r \in Runs : \E q \in Runs : \E n \in 1..Len(files[r]) :
       /\ FailedOnly(r, n)
       /\ \E w \in Returned(r, {"log_ingest_success"}) :
             calls[w].file = files[r][n]
       /\ q > r
       /\ pc[q] = "done"
       /\ stable_key(files[r][n]) \in loaded_ids[q]
       /\ \E m \in 1..Len(files[q]) : files[q][m] = files[r][n]

(***************************************************************************)
(* C35 -- All-already-loaded run: with a non-empty discovery whose keys    *)
(* are all returned by already_loaded, the run makes no upload and no      *)
(* archive call, writes no INGEST event, and writes FINISHED/SUCCESS with  *)
(* files_new = files_success = files_failure = 0 and files_skipped =       *)
(* files_found.                                                            *)
(***************************************************************************)
\* The dedup check of run r returned every key of a non-empty discovery.
AllAlreadyLoaded(r) ==
    /\ Processing(r)
    /\ files[r] # <<>>
    /\ \A n \in 1..Len(files[r]) : stable_key(files[r][n]) \in loaded_ids[r]

\* C35: a run whose discovered keys are all already loaded makes no call
\* for a file and writes no INGEST row; the only call it still makes is
\* log_run_finished, and when that returns the run has returned with a
\* FINISHED row of status SUCCESS, files_found = files_skipped = the number
\* of discovered files and the other three counters 0.
C35_AllAlreadyLoaded ==
    \A r \in Runs :
       AllAlreadyLoaded(r) =>
          /\ new_files[r] = <<>>
          /\ CallsTo(r, FileOps) = {}
          /\ Ingests(r, "SUCCESS") \cup Ingests(r, "FAILURE") = {}
          /\ pc[r] \in {"loop", "done", "raised"}
          /\ pc[r] = "raised" => RaisedIn(r, {"log_run_finished"}) # {}
          /\ pc[r] = "done" => Finished(r) # {}
          /\ \A j \in Finished(r) :
                /\ log[j].status = "SUCCESS"
                /\ log[j].metadata =
                      [files_found |-> Len(files[r]), files_new |-> 0,
                       files_skipped |-> Len(files[r]), files_success |-> 0,
                       files_failure |-> 0]

\* Witness: a run that discovered three files, all loaded by the run
\* before it, and returned after writing FINISHED.
C35_Witness ==
    \E r \in Runs :
       /\ AllAlreadyLoaded(r)
       /\ Len(files[r]) = 3
       /\ pc[r] = "done"
       /\ Finished(r) # {}

(***************************************************************************)
(* C36 -- Event level follows status: a row has event_level ERROR exactly  *)
(* when it is an INGEST/FAILURE event or a FINISHED event with a status    *)
(* other than SUCCESS, and INFO otherwise; error_details is non-null only  *)
(* on INGEST/FAILURE rows.                                                 *)
(***************************************************************************)
\* C36: every row of the table has level ERROR or INFO; it is ERROR iff the
\* row is an INGEST/FAILURE row or a RUN row that is neither STARTED nor
\* SUCCESS; for the statuses STARTED, SUCCESS and FAILURE that is: ERROR
\* iff the status is FAILURE; and error_details is set only on
\* INGEST/FAILURE rows.
C36_EventLevelFollowsStatus ==
    \A j \in LogIdx :
       /\ log[j].event_level \in {"INFO", "ERROR"}
       /\ log[j].event_level = "ERROR" <=>
             \/ IsIngest(log[j], "FAILURE")
             \/ /\ log[j].event_type = "RUN"
                /\ log[j].status \notin {"STARTED", "SUCCESS"}
       /\ log[j].status \in {"STARTED", "SUCCESS", "FAILURE"} =>
             (log[j].event_level = "ERROR" <=> log[j].status = "FAILURE")
       /\ log[j].error_details # None => IsIngest(log[j], "FAILURE")
       /\ log[j].error_code = None

\* Witness: the table holds a FINISHED/FAILURE row at level ERROR without
\* error_details and an INGEST/FAILURE row at level ERROR with them.
C36_Witness ==
    /\ \E j \in LogIdx : /\ log[j].event_type = "RUN"
                          /\ log[j].status = "FAILURE"
                          /\ log[j].event_level = "ERROR"
                          /\ log[j].error_details = None
    /\ \E j \in LogIdx : /\ IsIngest(log[j], "FAILURE")
                          /\ log[j].event_level = "ERROR"
                          /\ log[j].error_details # None

(***************************************************************************)
(* C37 -- The STARTED event's metadata is {component, entity_id_mode},     *)
(* component being the pipeline's component identifier and entity_id_mode  *)
(* the string stable_key, not a collection.                                *)
(***************************************************************************)
\* C37: every STARTED row carries metadata with exactly the keys component
\* and entity_id_mode, component is the pipeline's component, and
\* entity_id_mode is not a sequence of mode strings but the string
\* "stable_key".
C37_StartedMetadata ==
    \A j \in LogIdx :
       IsStarted(log[j]) =>
          /\ DOMAIN log[j].metadata = {"component", "entity_id_mode"}
          /\ log[j].metadata.component = component
          /\ log[j].metadata.entity_id_mode \notin Seq({"stable_key", "file_name"})
          /\ log[j].metadata.entity_id_mode = "stable_key"

====
